---- MODULE Spec2Model ----
(***************************************************************************)
(* Circuit breaker and retry executor of backend/app/core/retry.py.        *)
(*                                                                         *)
(* Time is counted in whole ticks of one second.  The code reads the clock *)
(* only to compare time.time() - last_failure_time with recovery_timeout   *)
(* and to sleep for a delay, so the model keeps the two differences        *)
(* instead of the clock: a breaker's `since_failure` is time.time() -      *)
(* last_failure_time (None while last_failure_time is None) and a sleeping *)
(* caller's `remaining` is what is left of its delay; Tick moves both.     *)
(* The registry dictionaries of RetryManager are functions whose   *)
(* DOMAIN is the set of keys present.  Each caller of a decorated function *)
(* is a process of Procs; a caller is suspended while the wrapped          *)
(* operation is in flight and while it sleeps between two attempts, and    *)
(* other callers run in between.                                           *)
(*                                                                         *)
(* Spec is the retry executor and its breakers.  SpecDelay applies         *)
(* calculate_delay to inputs drawn from bounded sets.  SpecThreads runs    *)
(* the breaker's methods from several threads, one statement at a time.    *)
(* SpecCache is the in-memory CacheManager under a clock, SpecPattern      *)
(* clear_pattern applied to two patterns and one store, SpecCacheThreads   *)
(* get and set of the cache from several threads.  SpecHealth is the       *)
(* health checker and the health request, SpecMetrics the metrics          *)
(* collector, SpecCounters its counters under threads, SpecAlerts the      *)
(* alert manager.                                                          *)
(***************************************************************************)
EXTENDS Integers, Sequences, FiniteSets, TLC

\* ------------------------------------------------------------------ bounds
MaxThreshold == 2       \* failure_threshold is drawn from 1..MaxThreshold
MaxTimeout == 1         \* recovery_timeout of the breakers
MaxRetriesArg == 1      \* MAX_RETRIES of the environment; the decorators'
                        \* max_retries is drawn from 0..MaxRetriesArg
MaxFailures == 2        \* no new call starts once failure_count exceeds this
MaxAttempt == 8         \* SpecDelay: attempt is drawn from 1..MaxAttempt
MaxCalls == 2           \* SpecThreads: calls each thread makes
MaxClock == 2           \* SpecCache: the clock runs from 0 to MaxClock
MaxCollects == 2        \* samples collect_metrics takes
MaxHistory == 2         \* SpecMetrics: max_history is drawn from 1..MaxHistory
MaxRequests == 2        \* SpecMetrics: requests recorded in one window
MaxSamples == 3         \* SpecMetrics: samples collect_metrics takes
MaxChecks == 2          \* SpecAlerts: calls of check_alerts
MaxTicks == 2           \* SpecAlerts: times the clock advances
MaxHandlers == 2        \* SpecDispatch: alert handlers registered
MaxLimit == 2           \* SpecRateLimit: limit is drawn from 0..MaxLimit
MaxWindow == 2          \* SpecRateLimit: window is drawn from 1..MaxWindow
MaxRateCalls == 4       \* SpecRateLimit: calls of check_rate_limit

\* ------------------------------------------------------- program constants
settings_RETRY_DELAY == 1
DEFAULT_MAX_DELAY == 60
DEFAULT_BACKOFF_FACTOR == 2
DEFAULT_EXPIRE == 3600
DEFAULT_MAX_HISTORY == 1000
REQUEST_TIMES_MAXLEN == 1000
WINDOW == 60
SUCCESSES_TO_CLOSE == 2

None == -1

Procs == {"t1", "t2"}
Services == {"ai_service"}

CLOSED == "closed"
OPEN == "open"
HALF_OPEN == "half_open"
CircuitState == {CLOSED, OPEN, HALF_OPEN}

FIXED == "fixed"
EXPONENTIAL == "exponential"
LINEAR == "linear"
RetryStrategy == {FIXED, EXPONENTIAL, LINEAR}

\* What one invocation of the wrapped operation can do: return a result,
\* raise an exception matched by `exceptions`, or raise one that is not.
\* Every attempt raises an exception object of its own, named by the
\* attempt that raised it.
Results == {"r1"}
Exc(kind, attempt) == [kind |-> kind, attempt |-> attempt]
NoExc == Exc("None", 0)

VARIABLES
    settings,           \* core.config.settings, read from the environment
    ctor,               \* the constructor arguments of the breakers
    circuit_breakers,   \* retry_manager.circuit_breakers
    retry_configs,      \* retry_manager.retry_configs
    call,               \* per caller: the frame of its wrapper call
    last_call,          \* per service: the breaker method the last step called
    history,            \* per service: counts of the calls made so far
    delay_call,         \* SpecDelay: one call of calculate_delay
    heap,               \* SpecThreads: the CircuitBreaker objects created
    registry,           \* SpecThreads: retry_manager.circuit_breakers, name -> object
    thread,             \* SpecThreads: each thread's position and locals
    memory_cache,       \* SpecCache: cache.memory_cache, key -> entry
    clock,              \* SpecCache: datetime.utcnow(), in seconds
    cache_op,           \* SpecCache: the last operation and what it returned
    last_set,           \* SpecCache: per key, the set() not yet followed by
                        \* another write of the key
    pattern_call,       \* SpecPattern: clear_pattern of two patterns on one store
    cache_thread,       \* SpecCacheThreads: each thread's position and locals
    health_checks,      \* health_checker.health_checks, the names in dict order
    health_status,      \* health_checker.health_status, name -> record
    health_op,          \* SpecHealth: the last operation and what it returned
    collector,          \* metrics_collector's fields
    metrics_op,         \* SpecMetrics: the last operation and what it returned
    metrics_thread,     \* SpecCounters: each thread's position and locals
    alerts,             \* alert_manager.alerts
    alert_clock,        \* SpecAlerts: time.time(), in seconds
    alert_op,           \* SpecAlerts: the last operation and what it returned
    alert_handlers      \* alert_manager.alert_handlers: what each handler does

retry_vars == <<settings, ctor, circuit_breakers, retry_configs, call, last_call, history>>
delay_vars == <<delay_call>>
thread_vars == <<heap, registry, thread>>
cache_vars == <<memory_cache, clock, cache_op, last_set>>
pattern_vars == <<pattern_call>>
cachet_vars == <<cache_thread>>
health_vars == <<health_checks, health_status, health_op>>
metrics_vars == <<collector, metrics_op>>
counter_vars == <<metrics_thread>>
alert_vars == <<alerts, alert_clock, alert_op, alert_handlers>>
more_vars == <<pattern_vars, cachet_vars, health_vars, metrics_vars, counter_vars, alert_vars>>
more_vars_but_cachet == <<pattern_vars, health_vars, metrics_vars, counter_vars, alert_vars>>
old_vars == <<retry_vars, delay_vars, thread_vars, cache_vars>>
other_vars == <<delay_vars, thread_vars, cache_vars, more_vars>>
vars == <<retry_vars, other_vars>>

\* ------------------------------------------------------------ primitives
Min(a, b) == IF a <= b THEN a ELSE b

RECURSIVE Pow(_, _)
Pow(b, e) == IF e <= 0 THEN 1 ELSE b * Pow(b, e - 1)

\* CircuitBreaker.__init__
CircuitBreaker(failure_threshold, recovery_timeout) ==
    [ failure_threshold |-> failure_threshold,
      recovery_timeout  |-> recovery_timeout,
      state             |-> CLOSED,
      failure_count     |-> 0,
      since_failure     |-> None,
      success_count     |-> 0 ]

\* RetryConfig.__init__ with its defaults
RetryConfig ==
    [ max_retries    |-> settings.MAX_RETRIES,
      base_delay     |-> settings.RETRY_DELAY,
      max_delay      |-> DEFAULT_MAX_DELAY,
      strategy       |-> EXPONENTIAL,
      jitter         |-> TRUE,
      backoff_factor |-> DEFAULT_BACKOFF_FACTOR ]

\* time.time() - last_failure_time is counted up to here: can_execute tells
\* no two larger values apart
SinceCap(cb) == cb.recovery_timeout + 1

\* can_execute never leaving Open
can_execute_stays_open(cb) ==
    [cb |-> cb, ret |-> cb.state # OPEN]

\* can_execute comparing with >= where the code compares with >
can_execute_at_timeout(cb) ==
    IF cb.state = OPEN /\ cb.since_failure >= cb.recovery_timeout
    THEN [cb |-> [cb EXCEPT !.state = HALF_OPEN], ret |-> TRUE]
    ELSE [cb |-> cb, ret |-> cb.state # OPEN]

\* CircuitBreaker.can_execute: the breaker afterwards and the value returned
can_execute(cb) ==
    IF cb.state = CLOSED THEN [cb |-> cb, ret |-> TRUE]
    ELSE IF cb.state = OPEN THEN
        IF cb.since_failure > cb.recovery_timeout
        THEN [cb |-> [cb EXCEPT !.state = HALF_OPEN], ret |-> TRUE]
        ELSE [cb |-> cb, ret |-> FALSE]
    ELSE IF cb.state = HALF_OPEN THEN [cb |-> cb, ret |-> TRUE]
    ELSE [cb |-> cb, ret |-> FALSE]

\* on_success resetting failure_count in Closed as well
on_success_clears_failures(cb) ==
    IF cb.state = HALF_OPEN THEN
        IF cb.success_count + 1 >= SUCCESSES_TO_CLOSE
        THEN [cb EXCEPT !.state = CLOSED, !.failure_count = 0, !.success_count = 0]
        ELSE [cb EXCEPT !.success_count = @ + 1]
    ELSE IF cb.state = CLOSED THEN [cb EXCEPT !.failure_count = 0]
    ELSE cb

\* on_success counting in Open as it does in HalfOpen
on_success_in_open(cb) ==
    IF cb.state # CLOSED THEN
        IF cb.success_count + 1 >= SUCCESSES_TO_CLOSE
        THEN [cb EXCEPT !.state = CLOSED, !.failure_count = 0, !.success_count = 0]
        ELSE [cb EXCEPT !.success_count = @ + 1]
    ELSE cb

\* CircuitBreaker.on_success
on_success(cb) ==
    IF cb.state = HALF_OPEN THEN
        IF cb.success_count + 1 >= SUCCESSES_TO_CLOSE
        THEN [cb EXCEPT !.state = CLOSED, !.failure_count = 0, !.success_count = 0]
        ELSE [cb EXCEPT !.success_count = @ + 1]
    ELSE cb

\* on_failure opening only above the threshold
on_failure_above_threshold(cb) ==
    LET c1 == [cb EXCEPT !.failure_count = @ + 1, !.since_failure = 0]
    IN  IF c1.state = CLOSED /\ c1.failure_count > c1.failure_threshold
        THEN [c1 EXCEPT !.state = OPEN]
        ELSE IF c1.state = HALF_OPEN
        THEN [c1 EXCEPT !.state = OPEN]
        ELSE c1

\* on_failure without the HalfOpen branch
on_failure_keeps_half_open(cb) ==
    LET c1 == [cb EXCEPT !.failure_count = @ + 1, !.since_failure = 0]
    IN  IF c1.state = CLOSED /\ c1.failure_count >= c1.failure_threshold
        THEN [c1 EXCEPT !.state = OPEN]
        ELSE c1

\* on_failure reopening a HalfOpen breaker without stamping the failure
on_failure_unstamped(cb) ==
    IF cb.state = HALF_OPEN
    THEN [cb EXCEPT !.failure_count = @ + 1, !.state = OPEN, !.since_failure = None]
    ELSE LET c1 == [cb EXCEPT !.failure_count = @ + 1, !.since_failure = 0]
         IN  IF c1.state = CLOSED /\ c1.failure_count >= c1.failure_threshold
             THEN [c1 EXCEPT !.state = OPEN]
             ELSE c1

\* CircuitBreaker.on_failure
on_failure(cb) ==
    LET c1 == [cb EXCEPT !.failure_count = @ + 1, !.since_failure = 0]
    IN  IF c1.state = CLOSED /\ c1.failure_count >= c1.failure_threshold
        THEN [c1 EXCEPT !.state = OPEN]
        ELSE IF c1.state = HALF_OPEN
        THEN [c1 EXCEPT !.state = OPEN]
        ELSE c1

\* RetryManager.get_circuit_breaker: the registry afterwards
get_circuit_breaker(cbs, service_name) ==
    IF service_name \notin DOMAIN cbs
    THEN [s \in DOMAIN cbs \cup {service_name} |->
            IF s = service_name
            THEN CircuitBreaker(ctor.failure_threshold, ctor.recovery_timeout)
            ELSE cbs[s]]
    ELSE cbs

\* RetryManager.get_retry_config: the registry afterwards
get_retry_config(cfgs, service_name) ==
    IF service_name \notin DOMAIN cfgs
    THEN [s \in DOMAIN cfgs \cup {service_name} |->
            IF s = service_name THEN RetryConfig ELSE cfgs[s]]
    ELSE cfgs

\* base_strategy_delay raising backoff_factor to attempt, not attempt - 1
base_strategy_delay_from_zero(attempt, config) ==
    IF config.strategy = FIXED THEN config.base_delay
    ELSE IF config.strategy = LINEAR THEN config.base_delay * attempt
    ELSE config.base_delay * Pow(config.backoff_factor, attempt)

\* The delay before jitter and clamping (lines 121-126)
base_strategy_delay(attempt, config) ==
    IF config.strategy = FIXED THEN config.base_delay
    ELSE IF config.strategy = LINEAR THEN config.base_delay * attempt
    ELSE config.base_delay * Pow(config.backoff_factor, attempt - 1)

\* random.uniform(0, 0.1 * delay) at the resolution of one tick
JitterChoices(delay) == 0 .. (delay \div 10)

\* RetryManager.calculate_delay, j being the value random.uniform returned
calculate_delay(attempt, config, j) ==
    LET delay == base_strategy_delay(attempt, config)
        jittered == IF config.jitter THEN delay + j ELSE delay
    IN  Min(jittered, config.max_delay)

\* ------------------------------------------------------------ decorators
\* The arguments of retry_with_circuit_breaker (lines 138-144); None leaves
\* the service's configuration as it is.
Decorators ==
    [ service_name : Services, max_retries : {None},
      base_delay : {None}, strategy : {"None"} ]
    \cup
    [ service_name : Services, max_retries : 0 .. MaxRetriesArg,
      base_delay : {2}, strategy : {LINEAR} ]

\* Lines 152-158: the overrides are written into the service's RetryConfig
override_config(config, d) ==
    LET c1 == IF d.max_retries # None
              THEN [config EXCEPT !.max_retries = d.max_retries] ELSE config
        c2 == IF d.base_delay # None
              THEN [c1 EXCEPT !.base_delay = d.base_delay] ELSE c1
    IN  IF d.strategy # "None" THEN [c2 EXCEPT !.strategy = d.strategy] ELSE c2

\* ------------------------------------------------------------ call frames
IdleFrame ==
    [ pc             |-> "idle",
      service_name   |-> "None",
      attempt        |-> 0,       \* the loop variable
      stop           |-> 0,       \* range(1, stop), fixed when the loop starts
      last_exception |-> NoExc,
      remaining      |-> 0,       \* what is left of the running sleep
      result         |-> "None",  \* the value returned, once returned
      raised         |-> NoExc,   \* the exception raised, once raised
      \* history of the call, read by the properties only
      max_retries0   |-> 0,       \* config.max_retries when the call started
      invoked        |-> 0,       \* invocations of the wrapped operation
      slept          |-> 0,       \* sleeps started
      failures       |-> 0,       \* on_failure calls
      successes      |-> 0,       \* on_success calls
      after_last     |-> FALSE,   \* a sleep was started after attempt stop-1
      cancelled      |-> FALSE,   \* the call was cancelled in a sleep
      invoked_open   |-> FALSE ]  \* the operation was invoked while the
                                  \* breaker would have refused the call

Terminal == {"returned", "raised"}

\* ------------------------------------------------- what the steps record
NoCall == [method |-> "none"]
NoCalls == [s \in Services |-> NoCall]

\* The step called `method` of the breaker `before`, on behalf of `by`
Called(method, by, before, ret) ==
    [method |-> method, by |-> by, before |-> before, ret |-> ret]

NoHistory == [streak |-> 0, probes |-> 0]

\* streak: on_failure calls since the breaker was last put in Closed with
\* failure_count 0 (created, reset, or closed by on_success);
\* probes: on_success calls made in HalfOpen since the breaker last entered
\* HalfOpen, with no on_failure since.
history_after(h, method, before, after) ==
    [ streak |->
        IF method = "on_failure" THEN h.streak + 1
        ELSE IF method = "reset" THEN 0
        ELSE IF method = "on_success" /\ before.state = HALF_OPEN
                                      /\ after.state = CLOSED THEN 0
        ELSE h.streak,
      probes |->
        IF method = "on_success" /\ before.state = HALF_OPEN THEN h.probes + 1
        ELSE IF method \in {"on_failure", "reset"} THEN 0
        ELSE IF method = "can_execute" /\ before.state = OPEN
                                       /\ after.state = HALF_OPEN THEN 0
        ELSE h.probes ]

Record(s, method, by, before, after, ret) ==
    /\ last_call' = [NoCalls EXCEPT ![s] = Called(method, by, before, ret)]
    /\ history' = [history EXCEPT ![s] = history_after(@, method, before, after)]

RecordNothing ==
    /\ last_call' = NoCalls
    /\ UNCHANGED history

\* can_execute would return False without changing the breaker
Refuses(cb) == ~can_execute(cb).ret

\* ---------------------------------------------------------------- actions
NoDelayCall == [attempt |-> 0]

RetryInit ==
    /\ settings \in [ MAX_RETRIES : {MaxRetriesArg},
                      RETRY_DELAY : {settings_RETRY_DELAY} ]
    /\ ctor \in [ failure_threshold : 1 .. MaxThreshold,
                  recovery_timeout  : {MaxTimeout} ]
    /\ circuit_breakers = << >>
    /\ retry_configs = << >>
    /\ call = [p \in Procs |-> IdleFrame]
    /\ last_call = NoCalls
    /\ history = [s \in Services |-> NoHistory]

DelayIdle == delay_call = NoDelayCall

\* A thread outside the wrapper: ref is the breaker object it holds, tmp
\* the value it loaded, calls the calls it has started
IdleThread == [pc |-> "idle", ref |-> 0, tmp |-> 0, calls |-> 0]

ThreadsIdle ==
    /\ heap = << >>
    /\ registry = << >>
    /\ thread = [t \in Procs |-> IdleThread]

NoCacheOp == [op |-> "none"]

\* Cache keys and patterns are strings, modelled as sequences of characters
CacheKeys == { <<"a">>, <<"b", "a">> }
NoSet == [at |-> None, ttl |-> None, value |-> "None"]

\* CacheManager.__init__ (lines 20-23): an empty memory_cache
CacheIdle ==
    /\ memory_cache = << >>
    /\ clock = 0
    /\ cache_op = NoCacheOp
    /\ last_set = [k \in CacheKeys |-> NoSet]

NoPatternCall == [done |-> FALSE, store |-> << >>]
PatternIdle == pattern_call = NoPatternCall

\* A thread outside the cache's methods
IdleCacheThread == [pc |-> "idle"]
CacheThreadsIdle == cache_thread = [t \in Procs |-> IdleCacheThread]

\* register_default_checks (lines 55-61), in registration order
DefaultChecks == <<"database", "cache", "disk_space", "memory", "cpu">>
NoHealthOp == [op |-> "none"]

\* HealthChecker.__init__ (lines 46-49)
HealthIdle ==
    /\ health_checks = [i \in DOMAIN DefaultChecks |->
                          [name |-> DefaultChecks[i], fn |-> "default"]]
    /\ health_status = << >>
    /\ health_op = NoHealthOp

\* MetricsCollector.__init__ (lines 254-260); since_reset is
\* datetime.utcnow() - self.last_reset, in seconds
MetricsCollector(max_history) ==
    [ max_history     |-> max_history,
      metrics_history |-> << >>,
      request_times   |-> << >>,
      error_count     |-> 0,
      total_requests  |-> 0,
      since_reset     |-> 0,
      collects        |-> 0 ]      \* the calls of collect_metrics so far

NoMetricsOp == [op |-> "none"]

\* metrics_collector = MetricsCollector() (line 503)
MetricsIdle ==
    /\ collector = MetricsCollector(DEFAULT_MAX_HISTORY)
    /\ metrics_op = NoMetricsOp

IdleMetricsThread == [pc |-> "idle"]
CountersIdle == metrics_thread = [t \in Procs |-> IdleMetricsThread]

\* checks and ticks count the check_alerts calls and the clock's advances
NoAlertOp == [op |-> "none", checks |-> 0, ticks |-> 0]

\* AlertManager.__init__ (lines 378-382)
AlertsIdle ==
    /\ alerts = << >>
    /\ alert_clock = 0
    /\ alert_op = NoAlertOp
    /\ alert_handlers = << >>

MoreIdle ==
    /\ PatternIdle
    /\ CacheThreadsIdle
    /\ HealthIdle
    /\ MetricsIdle
    /\ CountersIdle
    /\ AlertsIdle

Init ==
    /\ RetryInit
    /\ DelayIdle
    /\ ThreadsIdle
    /\ CacheIdle
    /\ MoreIdle

\* enter_loop without the breaker check
enter_loop_unchecked(f0, ret, config) ==
    IF config.max_retries + 2 <= 1
    THEN [f0 EXCEPT !.pc = "raised", !.raised = Exc("TypeError", 0),
                    !.stop = config.max_retries + 2]
    ELSE [f0 EXCEPT !.pc = "running", !.attempt = 1, !.invoked = 1,
                    !.stop = config.max_retries + 2]

\* Lines 160-166 (210-216): the frame after the breaker check, can_execute
\* having returned ret.  A refused call raises; otherwise the loop starts
\* and the operation is invoked for attempt 1 (an empty range falls through
\* to `raise last_exception` with last_exception None, a TypeError).
enter_loop(f0, ret, config) ==
    IF ~ret
    THEN [f0 EXCEPT !.pc = "raised", !.raised = Exc("CircuitOpen", 0)]
    ELSE IF config.max_retries + 2 <= 1
    THEN [f0 EXCEPT !.pc = "raised", !.raised = Exc("TypeError", 0),
                    !.stop = config.max_retries + 2]
    ELSE [f0 EXCEPT !.pc = "running", !.attempt = 1, !.invoked = 1,
                    !.stop = config.max_retries + 2]

\* Lines 149-166 (198-216 for the synchronous wrapper): resolve breaker and
\* configuration, apply the overrides, check the breaker, enter the loop.
wrapper_start(p, d) ==
    LET s    == d.service_name
        cbs1 == get_circuit_breaker(circuit_breakers, s)
        cfs1 == get_retry_config(retry_configs, s)
        cfg  == override_config(cfs1[s], d)
        r    == can_execute(cbs1[s])
        f0   == [IdleFrame EXCEPT !.service_name = s,
                                  !.max_retries0 = cfg.max_retries]
    IN  /\ call[p].pc \in {"idle"} \cup Terminal
        /\ s \in DOMAIN circuit_breakers
              => circuit_breakers[s].failure_count <= MaxFailures
        /\ circuit_breakers' = [cbs1 EXCEPT ![s] = r.cb]
        /\ retry_configs' = [cfs1 EXCEPT ![s] = cfg]
        /\ Record(s, "can_execute", p, cbs1[s], r.cb, r.ret)
        /\ call' = [call EXCEPT ![p] = enter_loop(f0, r.ret, cfg)]
        /\ UNCHANGED <<other_vars, settings, ctor>>

\* Lines 168-175 (218-222): the operation returned o
attempt_succeeds(p, o) ==
    LET s  == call[p].service_name
        cb == circuit_breakers[s]
    IN  /\ call[p].pc = "running"
        /\ circuit_breakers' = [circuit_breakers EXCEPT ![s] = on_success(cb)]
        /\ Record(s, "on_success", p, cb, on_success(cb), TRUE)
        /\ call' = [call EXCEPT ![p].pc = "returned", ![p].result = o,
                                ![p].successes = @ + 1]
        /\ UNCHANGED <<other_vars, settings, ctor, retry_configs>>

\* Lines 181-192 (228-239): the frame after on_failure, the attempt having
\* raised e: sleep for calculate_delay when attempt <= config.max_retries,
\* as the configuration reads now, and leave the loop otherwise
after_failure(f, e, config, j) ==
    LET f1 == [f EXCEPT !.last_exception = e, !.failures = @ + 1]
    IN  IF f.attempt <= config.max_retries
        THEN [f1 EXCEPT !.pc = "sleeping",
                        !.remaining = calculate_delay(f.attempt, config, j),
                        !.slept = @ + 1,
                        !.after_last = (f.attempt + 1 >= f.stop)]
        ELSE [f1 EXCEPT !.pc = "raised", !.raised = f1.last_exception]

\* Lines 177-192 (224-239): the operation raised an exception matched by
\* `exceptions`
attempt_fails(p) ==
    LET s   == call[p].service_name
        cb  == circuit_breakers[s]
        cfg == retry_configs[s]
        e   == Exc("retryable", call[p].attempt)
    IN  /\ call[p].pc = "running"
        /\ circuit_breakers' = [circuit_breakers EXCEPT ![s] = on_failure(cb)]
        /\ Record(s, "on_failure", p, cb, on_failure(cb), TRUE)
        /\ \E j \in JitterChoices(base_strategy_delay(call[p].attempt, cfg)) :
              call' = [call EXCEPT ![p] = after_failure(call[p], e, cfg, j)]
        /\ UNCHANGED <<other_vars, settings, ctor, retry_configs>>

\* The operation raised an exception not matched by `exceptions` (line 177,
\* 224): it propagates out of the wrapper
attempt_aborts(p) ==
    /\ call[p].pc = "running"
    /\ call' = [call EXCEPT ![p].pc = "raised",
                            ![p].raised = Exc("other", call[p].attempt)]
    /\ RecordNothing
    /\ UNCHANGED <<other_vars, settings, ctor, circuit_breakers, retry_configs>>

\* Line 187 (234) returns: the frame at the next iteration of the loop,
\* which invokes the operation again whatever the breaker cb says, or at
\* line 195 (242) when the range is exhausted
next_iteration(f, cb) ==
    IF f.attempt + 1 < f.stop
    THEN [f EXCEPT !.pc = "running", !.attempt = @ + 1, !.invoked = @ + 1,
                   !.invoked_open = @ \/ Refuses(cb)]
    ELSE [f EXCEPT !.pc = "raised", !.raised = f.last_exception]

sleep_ends(p) ==
    /\ call[p].pc = "sleeping"
    /\ call[p].remaining = 0
    /\ call' = [call EXCEPT ![p] =
                  next_iteration(@, circuit_breakers[call[p].service_name])]
    /\ RecordNothing
    /\ UNCHANGED <<other_vars, settings, ctor, circuit_breakers, retry_configs>>

\* cancel_sleep catching the cancellation and going on with the loop
cancel_sleep_swallowed(f) ==
    IF f.attempt + 1 < f.stop
    THEN [f EXCEPT !.pc = "running", !.attempt = @ + 1, !.invoked = @ + 1,
                   !.remaining = 0, !.cancelled = TRUE]
    ELSE [f EXCEPT !.pc = "raised", !.raised = f.last_exception,
                   !.remaining = 0, !.cancelled = TRUE]

\* Line 187: `await asyncio.sleep(delay)` raises CancelledError when the
\* task is cancelled.  The await stands in the except clause of line 177,
\* outside the try block, so nothing catches the exception: it leaves the
\* loop and the wrapper.
cancel_sleep(f) ==
    [f EXCEPT !.pc = "raised", !.raised = Exc("CancelledError", f.attempt),
              !.remaining = 0, !.cancelled = TRUE]

\* The caller cancels the task (or an enclosing timeout does) while the
\* asynchronous wrapper is suspended at line 187
sleep_cancelled(p) ==
    /\ call[p].pc = "sleeping"
    /\ call' = [call EXCEPT ![p] = cancel_sleep(@)]
    /\ RecordNothing
    /\ UNCHANGED <<other_vars, settings, ctor, circuit_breakers, retry_configs>>

\* get_circuit_breaker_status (lines 284-294)
get_circuit_breaker_status(service_name) ==
    LET cbs1 == get_circuit_breaker(circuit_breakers, service_name)
        r    == can_execute(cbs1[service_name])
    IN  /\ circuit_breakers' = [cbs1 EXCEPT ![service_name] = r.cb]
        /\ Record(service_name, "can_execute", "status", cbs1[service_name],
                  r.cb, r.ret)
        /\ UNCHANGED <<other_vars, settings, ctor, retry_configs, call>>

\* reset_circuit_breaker without line 302
reset_fields_keeps_successes(cb) ==
    [cb EXCEPT !.state = CLOSED, !.failure_count = 0, !.since_failure = None]

\* Lines 300-303: the fields reset_circuit_breaker assigns
reset_fields(cb) ==
    [cb EXCEPT !.state = CLOSED, !.failure_count = 0,
               !.success_count = 0, !.since_failure = None]

\* reset_circuit_breaker (lines 296-304)
reset_circuit_breaker(service_name) ==
    /\ IF service_name \in DOMAIN circuit_breakers
       THEN /\ circuit_breakers' = [circuit_breakers EXCEPT ![service_name] =
                                       reset_fields(@)]
            /\ Record(service_name, "reset", "admin",
                      circuit_breakers[service_name],
                      reset_fields(circuit_breakers[service_name]), TRUE)
       ELSE /\ circuit_breakers' = circuit_breakers
            /\ RecordNothing
    /\ UNCHANGED <<other_vars, settings, ctor, retry_configs, call>>

\* The part of the state that time moves
Ageing(cb) == cb.since_failure # None /\ cb.since_failure < SinceCap(cb)
Sleeping(f) == f.pc = "sleeping" /\ f.remaining > 0

\* One second passes
Tick ==
    /\ {s \in DOMAIN circuit_breakers : Ageing(circuit_breakers[s])}
          \cup {p \in Procs : Sleeping(call[p])} # {}
    /\ circuit_breakers' = [s \in DOMAIN circuit_breakers |->
          IF Ageing(circuit_breakers[s])
          THEN [circuit_breakers[s] EXCEPT !.since_failure = @ + 1]
          ELSE circuit_breakers[s]]
    /\ call' = [p \in Procs |->
          IF Sleeping(call[p])
          THEN [call[p] EXCEPT !.remaining = @ - 1] ELSE call[p]]
    /\ RecordNothing
    /\ UNCHANGED <<other_vars, settings, ctor, retry_configs>>

Next ==
    \/ \E p \in Procs, d \in Decorators : wrapper_start(p, d)
    \/ \E p \in Procs, o \in Results : attempt_succeeds(p, o)
    \/ \E p \in Procs : attempt_fails(p)
    \/ \E p \in Procs : attempt_aborts(p)
    \/ \E p \in Procs : sleep_ends(p)
    \/ \E p \in Procs : sleep_cancelled(p)
    \/ \E s \in Services : get_circuit_breaker_status(s)
    \/ \E s \in Services : reset_circuit_breaker(s)
    \/ Tick

Spec == Init /\ [][Next]_vars

\* ------------------------------------------------- SpecDelay: calculate_delay
\* The configurations calculate_delay is applied to: RetryConfig's
\* constructor takes every field (lines 27-41)
DelayConfigs ==
    [ max_retries    : {0},
      base_delay     : {1, 10, 25},
      max_delay      : {DEFAULT_MAX_DELAY, 40},
      strategy       : RetryStrategy,
      jitter         : BOOLEAN,
      backoff_factor : {DEFAULT_BACKOFF_FACTOR, 3} ]

RetryIdle ==
    /\ settings = [MAX_RETRIES |-> MaxRetriesArg, RETRY_DELAY |-> settings_RETRY_DELAY]
    /\ ctor = [failure_threshold |-> MaxThreshold, recovery_timeout |-> MaxTimeout]
    /\ circuit_breakers = << >>
    /\ retry_configs = << >>
    /\ call = [p \in Procs |-> IdleFrame]
    /\ last_call = NoCalls
    /\ history = [s \in Services |-> NoHistory]

InitDelay ==
    /\ RetryIdle
    /\ ThreadsIdle
    /\ CacheIdle
    /\ MoreIdle
    /\ delay_call \in [ attempt : 1 .. MaxAttempt, config : DelayConfigs,
                         j : {None}, out : {None} ]

\* retry_manager.calculate_delay(attempt, config), random.uniform returning j
apply_calculate_delay ==
    /\ delay_call.out = None
    /\ \E j \in JitterChoices(base_strategy_delay(delay_call.attempt,
                                                   delay_call.config)) :
          delay_call' = [delay_call EXCEPT
              !.j = IF delay_call.config.jitter THEN j ELSE 0,
              !.out = calculate_delay(delay_call.attempt, delay_call.config, j)]
    /\ UNCHANGED <<more_vars, retry_vars, thread_vars, cache_vars>>

NextDelay == apply_calculate_delay

SpecDelay == InitDelay /\ [][NextDelay]_vars

\* ------------------------------------------------------------- properties
Registered == DOMAIN circuit_breakers

\* C1: from Closed with failure_count 0 the breaker is still Closed after
\* fewer than failure_threshold on_failure calls and Open after the
\* failure_threshold-th; from then on, as long as no more than
\* recovery_timeout has passed since the last recorded failure, it is Open
\* and can_execute returns False.
C1_OpensAtThreshold ==
    \A s \in Registered :
        LET cb == circuit_breakers[s]
            h  == history[s]
        IN  /\ h.streak < cb.failure_threshold => cb.state = CLOSED
            /\ (h.streak >= cb.failure_threshold
                    /\ cb.since_failure <= cb.recovery_timeout)
                 => (cb.state = OPEN /\ ~can_execute(cb).ret)

\* The failure_threshold-th failure (of at least 2) has just opened the breaker
C1_Witness ==
    \E s \in Registered :
        /\ last_call[s].method = "on_failure"
        /\ last_call[s].before.state = CLOSED
        /\ circuit_breakers[s].failure_threshold >= 2
        /\ history[s].streak = circuit_breakers[s].failure_threshold
        /\ circuit_breakers[s].state = OPEN

\* C2: an on_success call closes a HalfOpen breaker only as the second of two
\* on_success calls made in the same HalfOpen period with no on_failure
\* between them, and failure_count and success_count are 0 when it closes.
C2_ClosesAfterTwoProbes ==
    \A s \in Registered :
        (/\ last_call[s].method = "on_success"
         /\ last_call[s].before.state = HALF_OPEN
         /\ circuit_breakers[s].state = CLOSED)
        => /\ history[s].probes = 2
           /\ circuit_breakers[s].failure_count = 0
           /\ circuit_breakers[s].success_count = 0

\* C3: one on_failure call on a HalfOpen breaker leaves it Open, and
\* can_execute is False right afterwards when recovery_timeout is positive.
C3_HalfOpenFailureOpens ==
    \A s \in Registered :
        (/\ last_call[s].method = "on_failure"
         /\ last_call[s].before.state = HALF_OPEN)
        => /\ circuit_breakers[s].state = OPEN
           /\ circuit_breakers[s].recovery_timeout > 0
                 => ~can_execute(circuit_breakers[s]).ret

\* on_failure has just been called on a HalfOpen breaker that had counted a
\* success
C3_Witness ==
    \E s \in Registered :
        /\ last_call[s].method = "on_failure"
        /\ last_call[s].before.state = HALF_OPEN
        /\ last_call[s].before.success_count = 1

\* C4: can_execute on an Open breaker returns False and changes nothing while
\* no more than recovery_timeout has passed since the last failure, and moves
\* it to HalfOpen and returns True once more has passed; on a Closed or
\* HalfOpen breaker it returns True and changes nothing.
C4_CanExecute ==
    \A s \in Registered :
        last_call[s].method = "can_execute" =>
            LET b  == last_call[s].before
                cb == circuit_breakers[s]
                r  == last_call[s].ret
            IN  /\ (b.state = OPEN /\ b.since_failure <= b.recovery_timeout)
                      => (~r /\ cb = b)
                /\ (b.state = OPEN /\ b.since_failure > b.recovery_timeout)
                      => (r /\ cb = [b EXCEPT !.state = HALF_OPEN])
                /\ b.state \in {CLOSED, HALF_OPEN} => (r /\ cb = b)

\* can_execute has just moved an Open breaker to HalfOpen
C4_Witness ==
    \E s \in Registered :
        /\ last_call[s].method = "can_execute"
        /\ last_call[s].before.state = OPEN
        /\ last_call[s].ret
        /\ circuit_breakers[s].state = HALF_OPEN

\* C5: the state of a breaker changes only Closed->Open by on_failure,
\* Open->HalfOpen by can_execute, HalfOpen->Closed by on_success,
\* HalfOpen->Open by on_failure and any->Closed by reset; failure_count
\* decreases only in a step that ends in Closed.
C5_StepAllowed(s) ==
    LET a == circuit_breakers[s]
        b == circuit_breakers'[s]
        m == last_call'[s].method
    IN  /\ a.state # b.state =>
              \/ a.state = CLOSED /\ b.state = OPEN /\ m = "on_failure"
              \/ a.state = OPEN /\ b.state = HALF_OPEN /\ m = "can_execute"
              \/ a.state = HALF_OPEN /\ b.state = CLOSED /\ m = "on_success"
              \/ a.state = HALF_OPEN /\ b.state = OPEN /\ m = "on_failure"
              \/ b.state = CLOSED /\ m = "reset"
        /\ b.failure_count < a.failure_count => b.state = CLOSED

C5_OnlyDefinedTransitions == [][\A s \in Registered : C5_StepAllowed(s)]_vars

\* reset has just closed a breaker that was not Closed and had counted failures
C5_Witness ==
    \E s \in Registered :
        /\ last_call[s].method = "reset"
        /\ last_call[s].before.state # CLOSED
        /\ last_call[s].before.failure_count > 0
        /\ circuit_breakers[s].state = CLOSED

\* C6: on_success on a Closed or Open breaker changes none of state,
\* failure_count, success_count and the time of the last failure.
C6_SuccessOnlyInHalfOpen ==
    \A s \in Registered :
        (/\ last_call[s].method = "on_success"
         /\ last_call[s].before.state \in {CLOSED, OPEN})
        => circuit_breakers[s] = last_call[s].before

\* on_success has just been called on a Closed breaker that had counted a
\* failure
C6_Witness ==
    \E s \in Registered :
        /\ last_call[s].method = "on_success"
        /\ last_call[s].before.state = CLOSED
        /\ last_call[s].before.failure_count > 0

\* C7: a wrapper call that finds its breaker refusing (Open, recovery_timeout
\* not elapsed) raises the circuit-open error at once: the operation was not
\* invoked, no sleep was taken and the breaker is as it was.
C7_RefusedCallFailsFast ==
    \A s \in Registered :
        (/\ last_call[s].method = "can_execute"
         /\ last_call[s].by \in Procs
         /\ Refuses(last_call[s].before))
        => LET f == call[last_call[s].by]
           IN  /\ f.pc = "raised"
               /\ f.raised = Exc("CircuitOpen", 0)
               /\ f.invoked = 0
               /\ f.slept = 0
               /\ f.failures = 0
               /\ circuit_breakers[s] = last_call[s].before

\* a wrapper call has just been refused by an Open breaker
C7_Witness ==
    \E s \in Registered :
        /\ last_call[s].method = "can_execute"
        /\ last_call[s].by \in Procs
        /\ last_call[s].before.state = OPEN
        /\ ~last_call[s].ret
        /\ call[last_call[s].by].pc = "raised"

\* C8: a wrapper call whose configuration had max_retries = R when it started
\* invokes the operation at most R+1 times; it returns at the first attempt
\* that succeeds, having called on_success once; and when every attempt
\* failed (each with an exception matched by `exceptions`) it has made
\* exactly R+1 attempts.
C8_AttemptsBounded ==
    \A p \in Procs :
        LET f == call[p]
        IN  /\ f.invoked <= f.max_retries0 + 1
            /\ f.pc = "returned" =>
                  (f.successes = 1 /\ f.failures = f.invoked - 1)
            /\ (f.pc = "raised" /\ f.raised.kind = "retryable")
                  => f.invoked = f.max_retries0 + 1

\* C9: within one wrapper call the operation is never invoked while the
\* breaker is Open with recovery_timeout not elapsed.
C9_NeverInvokedWhileOpen ==
    \A p \in Procs : ~call[p].invoked_open

\* C10: when all max_retries+1 attempts of a call failed with exceptions
\* matched by `exceptions`, the call raises the exception of the last
\* attempt, on_failure was called once per attempt, a sleep was taken after
\* every attempt but the last and none after the last.
C10_ExhaustedCall ==
    \A p \in Procs :
        LET f == call[p]
        IN  (/\ f.invoked = f.max_retries0 + 1
             /\ f.failures = f.invoked)
            => /\ ~f.after_last
               /\ f.pc = "raised" =>
                     /\ f.raised = Exc("retryable", f.invoked)
                     /\ f.failures = f.max_retries0 + 1
                     /\ f.slept = f.max_retries0

\* ------------------------------------- SpecThreads: the breaker under threads
\* Threads run the synchronous wrapper (lines 198-242) around an operation
\* that fails, for the service TheService.  Nothing in retry.py takes a lock,
\* so the threads interleave between the statements of get_circuit_breaker
\* and of on_failure, and between the load and the store of
\* `self.failure_count += 1`.  No time passes in the window modelled.
TheService == "ai_service"

\* A CircuitBreaker object; applied counts the on_failure calls that have
\* returned on it
NewObject ==
    [ obj     |-> CircuitBreaker(ctor.failure_threshold, ctor.recovery_timeout),
      applied |-> 0 ]

InitThreads ==
    /\ RetryIdle
    /\ DelayIdle
    /\ CacheIdle
    /\ ThreadsIdle
    /\ MoreIdle

\* The wrapper is called (line 198)
thread_start(t) ==
    /\ thread[t].pc = "idle"
    /\ thread[t].calls < MaxCalls
    /\ thread' = [thread EXCEPT ![t] = [pc |-> "gcb_test", ref |-> 0, tmp |-> 0,
                                        calls |-> @.calls + 1]]
    /\ UNCHANGED <<more_vars, retry_vars, delay_vars, cache_vars, heap, registry>>

\* Line 109: if service_name not in self.circuit_breakers
gcb_test(t) ==
    /\ thread[t].pc = "gcb_test"
    /\ thread' = [thread EXCEPT ![t].pc =
                    IF TheService \in DOMAIN registry THEN "gcb_fetch"
                                                      ELSE "gcb_create"]
    /\ UNCHANGED <<more_vars, retry_vars, delay_vars, cache_vars, heap, registry>>

\* Line 110: self.circuit_breakers[service_name] = CircuitBreaker()
gcb_create(t) ==
    /\ thread[t].pc = "gcb_create"
    /\ heap' = Append(heap, NewObject)
    /\ registry' = [s \in DOMAIN registry \cup {TheService} |->
                      IF s = TheService THEN Len(heap) + 1 ELSE registry[s]]
    /\ thread' = [thread EXCEPT ![t].pc = "gcb_fetch"]
    /\ UNCHANGED <<more_vars, retry_vars, delay_vars, cache_vars>>

\* Line 111: return self.circuit_breakers[service_name]
gcb_fetch(t) ==
    /\ thread[t].pc = "gcb_fetch"
    /\ thread' = [thread EXCEPT ![t].pc = "can_execute",
                                ![t].ref = registry[TheService]]
    /\ UNCHANGED <<more_vars, retry_vars, delay_vars, cache_vars, heap, registry>>

\* Lines 210-212: a refused call raises; otherwise the operation is invoked
\* (line 220) and raises
thread_can_execute(t) ==
    LET r == can_execute(heap[thread[t].ref].obj)
    IN  /\ thread[t].pc = "can_execute"
        /\ heap' = [heap EXCEPT ![thread[t].ref].obj = r.cb]
        /\ thread' = [thread EXCEPT ![t].pc =
                        IF r.ret THEN "of_load" ELSE "idle"]
        /\ UNCHANGED <<more_vars, retry_vars, delay_vars, cache_vars, registry>>

\* Line 89, self.failure_count += 1: the load
of_load(t) ==
    /\ thread[t].pc = "of_load"
    /\ thread' = [thread EXCEPT ![t].pc = "of_store",
                     ![t].tmp = heap[thread[t].ref].obj.failure_count]
    /\ UNCHANGED <<more_vars, retry_vars, delay_vars, cache_vars, heap, registry>>

\* Line 89, self.failure_count += 1: the store
of_store(t) ==
    /\ thread[t].pc = "of_store"
    /\ heap' = [heap EXCEPT ![thread[t].ref].obj.failure_count =
                              thread[t].tmp + 1]
    /\ thread' = [thread EXCEPT ![t].pc = "of_stamp"]
    /\ UNCHANGED <<more_vars, retry_vars, delay_vars, cache_vars, registry>>

\* Line 90: self.last_failure_time = time.time()
of_stamp(t) ==
    /\ thread[t].pc = "of_stamp"
    /\ heap' = [heap EXCEPT ![thread[t].ref].obj.since_failure = 0]
    /\ thread' = [thread EXCEPT ![t].pc = "of_check"]
    /\ UNCHANGED <<more_vars, retry_vars, delay_vars, cache_vars, registry>>

\* Lines 92-98: the breaker after the state test of on_failure
of_opened(cb) ==
    IF cb.state = HALF_OPEN THEN [cb EXCEPT !.state = OPEN]
    ELSE IF cb.failure_count >= cb.failure_threshold
    THEN [cb EXCEPT !.state = OPEN]
    ELSE cb

\* Lines 92-98, and on_failure returns; with max_retries 0 the wrapper
\* raises (line 242)
of_check(t) ==
    /\ thread[t].pc = "of_check"
    /\ heap' = [heap EXCEPT ![thread[t].ref] =
                  [obj |-> of_opened(@.obj), applied |-> @.applied + 1]]
    /\ thread' = [thread EXCEPT ![t].pc = "idle"]
    /\ UNCHANGED <<more_vars, retry_vars, delay_vars, cache_vars, registry>>

NextThreads ==
    \/ \E t \in Procs : thread_start(t)
    \/ \E t \in Procs : gcb_test(t)
    \/ \E t \in Procs : gcb_create(t)
    \/ \E t \in Procs : gcb_fetch(t)
    \/ \E t \in Procs : thread_can_execute(t)
    \/ \E t \in Procs : of_load(t)
    \/ \E t \in Procs : of_store(t)
    \/ \E t \in Procs : of_stamp(t)
    \/ \E t \in Procs : of_check(t)

SpecThreads == InitThreads /\ [][NextThreads]_vars

\* ------------------------------------------- SpecCache: the in-memory cache
\* _init_redis (lines 23-27) always leaves use_redis False, so every method
\* takes its memory_cache branch.  datetime.utcnow() is the variable clock.
CacheValues == {"v1", "v2"}
Expires == {None, 0, 1}             \* the `expire` argument of set
Seconds == {1}                      \* the `seconds` argument of expire
PatternChars == {"a", "b", "*"}
Patterns ==
    {<< >>} \cup [1 .. 1 -> PatternChars] \cup [1 .. 2 -> PatternChars]
            \cup {<<"b", "*", "a">>, <<"*", "a", "*">>}

InitCache ==
    /\ RetryIdle
    /\ DelayIdle
    /\ ThreadsIdle
    /\ CacheIdle
    /\ MoreIdle

\* memory_cache without the key k (del self.memory_cache[k])
without(mc, ks) == [x \in DOMAIN mc \ ks |-> mc[x]]

\* memory_cache with memory_cache[k] = e
with(mc, k, e) == [x \in DOMAIN mc \cup {k} |-> IF x = k THEN e ELSE mc[x]]

\* cache_entry['expires_at'] > datetime.utcnow()
unexpired(e) == e.expires_at > clock

\* What the operation leaves in cache_op: its arguments, the value it
\* returned, the store it found and the time it ran at
Op(op, key, arg, ret) ==
    [op |-> op, key |-> key, arg |-> arg, ret |-> ret,
     before |-> memory_cache, at |-> clock]

\* `expire or 3600` (line 53): None and 0 are both falsy
expire_or_default(expire) ==
    IF expire = None \/ expire = 0 THEN DEFAULT_EXPIRE ELSE expire

\* CacheManager.set (lines 44-58)
cache_set(k, v, expire) ==
    /\ memory_cache' = with(memory_cache, k,
          [value |-> v, expires_at |-> clock + expire_or_default(expire)])
    /\ cache_op' = Op("set", k, [value |-> v, expire |-> expire], TRUE)
    /\ last_set' = [last_set EXCEPT ![k] =
                      [at |-> clock, ttl |-> expire, value |-> v]]
    /\ UNCHANGED <<more_vars, retry_vars, delay_vars, thread_vars, clock>>

\* CacheManager.get (lines 60-78); "None" is Python's None
cache_get(k) ==
    /\ IF k \in DOMAIN memory_cache /\ unexpired(memory_cache[k])
       THEN /\ cache_op' = Op("get", k, None, memory_cache[k].value)
            /\ memory_cache' = memory_cache
       ELSE /\ cache_op' = Op("get", k, None, "None")
            /\ memory_cache' = without(memory_cache, {k})
    /\ UNCHANGED <<more_vars, retry_vars, delay_vars, thread_vars, clock, last_set>>

\* CacheManager.delete (lines 80-92)
cache_delete(k) ==
    /\ cache_op' = Op("delete", k, None, k \in DOMAIN memory_cache)
    /\ memory_cache' = without(memory_cache, {k})
    /\ last_set' = [last_set EXCEPT ![k] = NoSet]
    /\ UNCHANGED <<more_vars, retry_vars, delay_vars, thread_vars, clock>>

\* CacheManager.exists (lines 94-104): `cache_entry and ...` is None for a
\* key the dict does not hold and the comparison's value otherwise
cache_exists(k) ==
    /\ cache_op' = Op("exists", k, None,
          IF k \notin DOMAIN memory_cache THEN "None"
          ELSE IF unexpired(memory_cache[k]) THEN "True" ELSE "False")
    /\ UNCHANGED <<more_vars, retry_vars, delay_vars, thread_vars, memory_cache, clock, last_set>>

\* CacheManager.expire (lines 106-119)
cache_expire(k, seconds) ==
    /\ IF k \in DOMAIN memory_cache
       THEN /\ memory_cache' = [memory_cache EXCEPT ![k].expires_at = clock + seconds]
            /\ cache_op' = Op("expire", k, seconds, TRUE)
       ELSE /\ memory_cache' = memory_cache
            /\ cache_op' = Op("expire", k, seconds, FALSE)
    /\ last_set' = [last_set EXCEPT ![k] = NoSet]
    /\ UNCHANGED <<more_vars, retry_vars, delay_vars, thread_vars, clock>>

\* pattern.replace('*', '') keeping the '*' that are not at the end
strip_trailing(pattern) ==
    LET stars == {n \in 0 .. Len(pattern) :
                    \A i \in (Len(pattern) - n + 1) .. Len(pattern) : pattern[i] = "*"}
        n == CHOOSE m \in stars : \A o \in stars : o <= m
    IN  SubSeq(pattern, 1, Len(pattern) - n)

\* pattern.replace('*', '') (line 134)
replace_star(pattern) == SelectSeq(pattern, LAMBDA c : c # "*")

\* `sub in key` finding sub at the start of key only
is_in_at_start(sub, key) ==
    Len(sub) <= Len(key) /\ SubSeq(key, 1, Len(sub)) = sub

\* `sub in key` for strings (line 134)
is_in(sub, key) ==
    \E i \in 0 .. (Len(key) - Len(sub)) : SubSeq(key, i + 1, i + Len(sub)) = sub

\* Lines 131-135: the keys of the store mc that clear_pattern collects
keys_to_delete(mc, pattern) ==
    {k \in DOMAIN mc : is_in(replace_star(pattern), k)}

\* CacheManager.clear_pattern (lines 121-144)
cache_clear_pattern(pattern) ==
    LET deleted == keys_to_delete(memory_cache, pattern)
    IN  /\ memory_cache' = without(memory_cache, deleted)
        /\ cache_op' = Op("clear_pattern", pattern, None, Cardinality(deleted))
        /\ last_set' = [k \in CacheKeys |->
                          IF k \in deleted THEN NoSet ELSE last_set[k]]
        /\ UNCHANGED <<more_vars, retry_vars, delay_vars, thread_vars, clock>>

\* CacheManager.get_stats (lines 146-168)
cache_get_stats ==
    /\ cache_op' = Op("get_stats", None, None,
          [ total_keys  |-> Cardinality(DOMAIN memory_cache),
            active_keys |-> Cardinality({k \in DOMAIN memory_cache :
                                           unexpired(memory_cache[k])}) ])
    /\ UNCHANGED <<more_vars, retry_vars, delay_vars, thread_vars, memory_cache, clock, last_set>>

\* One second passes
cache_tick ==
    /\ clock < MaxClock
    /\ clock' = clock + 1
    /\ cache_op' = NoCacheOp
    /\ UNCHANGED <<more_vars, retry_vars, delay_vars, thread_vars, memory_cache, last_set>>

NextCache ==
    \/ \E k \in CacheKeys, v \in CacheValues, e \in Expires : cache_set(k, v, e)
    \/ \E k \in CacheKeys : cache_get(k)
    \/ \E k \in CacheKeys : cache_delete(k)
    \/ \E k \in CacheKeys : cache_exists(k)
    \/ \E k \in CacheKeys, n \in Seconds : cache_expire(k, n)
    \/ \E pattern \in Patterns : cache_clear_pattern(pattern)
    \/ cache_get_stats
    \/ cache_tick

SpecCache == InitCache /\ [][NextCache]_vars

\* ------------------------- SpecPattern: clear_pattern on two patterns
\* One store and two patterns are drawn; clear_pattern is applied with each
\* pattern to the same store contents.  The characters stand for the
\* segments of the keys the helpers build (lines 209-215, 218-252):
\* "u" for "user:", "p" for "profile", "q" for "query:".
UserStar == <<"u", "*">>                \* "user:*"
UserProfileStar == <<"u", "p", "*">>    \* "user:profile*"
PatternKeys == { <<"u", "p">>, <<"u", "q">>, <<"q", "u", "p">>, <<"q">> }
PatternPairs ==
    { UserStar, UserProfileStar, <<"u", "p">>, <<"q", "*">>, <<"*">>,
      <<"*", "p", "*">> }

\* the stores holding some of PatternKeys, each set at time 0
PatternStores ==
    { [k \in ks |-> [value |-> "v1", expires_at |-> DEFAULT_EXPIRE]] :
          ks \in SUBSET PatternKeys }

InitPattern ==
    /\ RetryIdle
    /\ DelayIdle
    /\ ThreadsIdle
    /\ CacheIdle
    /\ CacheThreadsIdle
    /\ HealthIdle
    /\ MetricsIdle
    /\ CountersIdle
    /\ AlertsIdle
    /\ pattern_call \in [ done : {FALSE}, store : PatternStores,
                           p : PatternPairs, q : PatternPairs ]

\* clear_pattern(pattern) on the store mc (lines 131-141): the keys it
\* deleted, the store it left and the count it returned
clear_pattern(mc, pattern) ==
    [ deleted |-> keys_to_delete(mc, pattern),
      store   |-> without(mc, keys_to_delete(mc, pattern)),
      ret     |-> Cardinality(keys_to_delete(mc, pattern)) ]

apply_clear_patterns ==
    /\ ~pattern_call.done
    /\ pattern_call' =
          [ done |-> TRUE, store |-> pattern_call.store,
            p |-> pattern_call.p, q |-> pattern_call.q,
            out_p |-> clear_pattern(pattern_call.store, pattern_call.p),
            out_q |-> clear_pattern(pattern_call.store, pattern_call.q) ]
    /\ UNCHANGED <<old_vars, cachet_vars, health_vars, metrics_vars,
                   counter_vars, alert_vars>>

NextPattern == apply_clear_patterns

SpecPattern == InitPattern /\ [][NextPattern]_vars

\* ------------------------------- SpecCacheThreads: get and set under threads
\* cache_manager is one process-wide object and its methods take no lock, so
\* threads calling get and set interleave between the statements of get:
\* the lookup of line 69, the test of line 70 and the del of line 74.
InitCacheThreads ==
    /\ RetryIdle
    /\ DelayIdle
    /\ ThreadsIdle
    /\ CacheIdle
    /\ MoreIdle

\* What dict.get returns for a key the dict does not hold
NoEntry == [value |-> "None", expires_at |-> None]

\* Line 69: cache_entry = self.memory_cache.get(key)
ct_get_lookup(t, k) ==
    /\ cache_thread[t].pc = "idle"
    /\ cache_thread' = [cache_thread EXCEPT ![t] =
          [ pc |-> "get_test", key |-> k,
            cache_entry |-> IF k \in DOMAIN memory_cache
                            THEN memory_cache[k] ELSE NoEntry ]]
    /\ UNCHANGED <<more_vars_but_cachet, retry_vars, delay_vars, thread_vars, cache_vars>>

\* Lines 70-73, 75: return the value of a live entry, go on to delete an
\* expired one, return None when there was none
ct_get_test(t) ==
    /\ cache_thread[t].pc = "get_test"
    /\ cache_thread' = [cache_thread EXCEPT ![t] =
          IF cache_thread[t].cache_entry # NoEntry
               /\ ~unexpired(cache_thread[t].cache_entry)
          THEN [@ EXCEPT !.pc = "get_del"]
          ELSE IdleCacheThread]
    /\ UNCHANGED <<more_vars_but_cachet, retry_vars, delay_vars, thread_vars, cache_vars>>

\* Lines 74-75: del self.memory_cache[key]; return None.  On a key that is
\* no longer there del raises KeyError, which line 76 catches.
ct_get_del(t) ==
    /\ cache_thread[t].pc = "get_del"
    /\ memory_cache' = without(memory_cache, {cache_thread[t].key})
    /\ cache_thread' = [cache_thread EXCEPT ![t] = IdleCacheThread]
    /\ UNCHANGED <<more_vars_but_cachet, retry_vars, delay_vars, thread_vars,
                   clock, cache_op, last_set>>

\* CacheManager.set (lines 51-55), one dict store
ct_set(t, k, v, expire) ==
    /\ cache_thread[t].pc = "idle"
    /\ memory_cache' = with(memory_cache, k,
          [value |-> v, expires_at |-> clock + expire_or_default(expire)])
    /\ last_set' = [last_set EXCEPT ![k] =
                      [at |-> clock, ttl |-> expire, value |-> v]]
    /\ UNCHANGED <<more_vars, retry_vars, delay_vars, thread_vars, clock, cache_op>>

\* One second passes
ct_tick ==
    /\ clock < MaxClock
    /\ clock' = clock + 1
    /\ UNCHANGED <<more_vars, retry_vars, delay_vars, thread_vars,
                   memory_cache, cache_op, last_set>>

NextCacheThreads ==
    \/ \E t \in Procs, k \in CacheKeys : ct_get_lookup(t, k)
    \/ \E t \in Procs : ct_get_test(t)
    \/ \E t \in Procs : ct_get_del(t)
    \/ \E t \in Procs, k \in CacheKeys, v \in CacheValues, e \in Expires :
          ct_set(t, k, v, e)
    \/ ct_tick

SpecCacheThreads == InitCacheThreads /\ [][NextCacheThreads]_vars

\* --------------------------------------------- SpecHealth: the health checker
\* health_checks is the dict of line 47 in insertion order; fn tells the
\* default check of that name from a function registered by the application.
\* DefaultChecks are registered with their own functions (lines 57-61).
CheckNames(checks) == {checks[i].name : i \in DOMAIN checks}

\* What one execution of a check function can do.  The default checks catch
\* every Exception themselves (lines 85, 118, 153, 188, 218) and return a
\* record: _check_database healthy or unhealthy (lines 70-84), _check_cache
\* healthy, since get_stats always says 'memory' (lines 101-108), the psutil
\* checks by their thresholds (lines 135-140, 170-175, 204-209).  A function
\* of the application returns a record of any status or raises.
CheckOutcomes(check) ==
    IF check.fn = "default"
    THEN IF check.name = "database" THEN {"healthy", "unhealthy"}
         ELSE IF check.name = "cache" THEN {"healthy"}
         ELSE {"healthy", "degraded", "unhealthy"}
    ELSE {"healthy", "degraded", "unhealthy", "raises"}

\* The outcomes of one execution of every registered check
RECURSIVE OutcomeLists(_, _)
OutcomeLists(checks, n) ==
    IF n = 0 THEN { << >> }
    ELSE { Append(v, o) : v \in OutcomeLists(checks, n - 1),
                          o \in CheckOutcomes(checks[n]) }

OutcomeVectors(checks) ==
    { [name \in CheckNames(checks) |->
          v[CHOOSE j \in DOMAIN checks : checks[j].name = name]] :
      v \in OutcomeLists(checks, Len(checks)) }

\* The ServiceHealth a check returns (name, status, error_message; the
\* times and details are left out)
ServiceHealth(name, status, error_message) ==
    [name |-> name, status |-> status, error_message |-> error_message]

returned_record(check, outcome) ==
    ServiceHealth(check.name, outcome,
        IF check.fn = "default"
        THEN IF check.name = "database" /\ outcome = "unhealthy"
             THEN "Database connection failed" ELSE "None"
        ELSE IF outcome = "healthy" THEN "None" ELSE "reported")

\* Lines 241-247: the record made for a check that raised e
raised_record(name) == ServiceHealth(name, "unhealthy", "str(e)")

\* run_all_checks without the try of line 232: the first check that raises
\* ends the loop
results_until_raise(checks, outcome) ==
    LET raising == {i \in DOMAIN checks : outcome[checks[i].name] = "raises"}
        ran == {i \in DOMAIN checks : \A j \in raising : i < j}
    IN  [n \in {checks[i].name : i \in ran} |->
            LET i == CHOOSE j \in DOMAIN checks : checks[j].name = n
            IN  returned_record(checks[i], outcome[n])]

\* Lines 229-249: the dict run_all_checks returns
results_of(checks, outcome) ==
    [n \in CheckNames(checks) |->
        LET i == CHOOSE j \in DOMAIN checks : checks[j].name = n
        IN  IF outcome[n] = "raises" THEN raised_record(n)
            ELSE returned_record(checks[i], outcome[n])]

\* Line 238: health_status after the run; only a check that returned is
\* stored
status_after(status, checks, outcome) ==
    LET returned == {n \in CheckNames(checks) : outcome[n] # "raises"}
    IN  [n \in DOMAIN status \cup returned |->
            IF n \in returned
            THEN LET i == CHOOSE j \in DOMAIN checks : checks[j].name = n
                 IN  returned_record(checks[i], outcome[n])
            ELSE status[n]]

InitHealth ==
    /\ RetryIdle
    /\ DelayIdle
    /\ ThreadsIdle
    /\ CacheIdle
    /\ MoreIdle

\* HealthChecker.register_health_check (lines 51-53): a dict store, which
\* keeps the position of a name already registered
register_health_check(name) ==
    /\ health_checks' =
          IF name \in CheckNames(health_checks)
          THEN [i \in DOMAIN health_checks |->
                  IF health_checks[i].name = name
                  THEN [name |-> name, fn |-> "custom"] ELSE health_checks[i]]
          ELSE Append(health_checks, [name |-> name, fn |-> "custom"])
    /\ health_op' = [op |-> "register", name |-> name]
    /\ UNCHANGED <<old_vars, pattern_vars, cachet_vars, metrics_vars,
                   counter_vars, alert_vars, health_status>>

\* HealthChecker.run_all_checks (lines 227-249)
run_all_checks ==
    \E outcome \in OutcomeVectors(health_checks) :
        /\ health_status' = status_after(health_status, health_checks, outcome)
        /\ health_op' = [op |-> "run_all_checks", outcome |-> outcome,
                         ret |-> results_of(health_checks, outcome)]
        /\ UNCHANGED <<old_vars, pattern_vars, cachet_vars, metrics_vars,
                       counter_vars, alert_vars, health_checks>>

NextHealth ==
    \/ \E name \in {"disk_space", "custom"} : register_health_check(name)
    \/ run_all_checks

SpecHealth == InitHealth /\ [][NextHealth]_vars

\* -------------------------------------------------- the metrics collector
\* deque.append leaving a full deque as it is
deque_append_drop_newest(q, x, maxlen) ==
    IF Len(q) >= maxlen THEN q ELSE Append(q, x)

\* deque(maxlen = maxlen).append(x): a full deque drops its oldest element
deque_append(q, x, maxlen) ==
    IF maxlen = 0 THEN q
    ELSE IF Len(q) >= maxlen THEN Append(Tail(q), x)
    ELSE Append(q, x)

\* _calculate_error_rate (lines 330-334), in whole percent, rounded down
calculate_error_rate(c) ==
    IF c.total_requests = 0 THEN 0
    ELSE (c.error_count * 100) \div c.total_requests

\* _calculate_requests_per_minute (lines 318-328): the collector afterwards
\* and the value returned
calculate_requests_per_minute(c) ==
    IF c.since_reset >= WINDOW
    THEN [c   |-> [c EXCEPT !.total_requests = 0, !.error_count = 0,
                            !.since_reset = 0],
          ret |-> 0]
    ELSE [c |-> c, ret |-> c.total_requests]

\* collect_metrics (lines 273-316), psutil reading `reading`: the collector
\* afterwards and the SystemMetrics returned.  serial stands for the
\* timestamp; the network, connection, response-time and cache-hit fields
\* are left out.
collect_metrics_of(c, reading) ==
    LET r == calculate_requests_per_minute(c)
        metrics ==
            [ serial              |-> c.collects + 1,
              cpu_usage           |-> reading.cpu_usage,
              memory_usage        |-> reading.memory_usage,
              disk_usage          |-> reading.disk_usage,
              requests_per_minute |-> r.ret,
              error_rate          |-> calculate_error_rate(r.c) ]
    IN  [ c |-> [r.c EXCEPT !.metrics_history =
                                deque_append(@, metrics, c.max_history),
                            !.collects = @ + 1],
          ret |-> metrics ]

\* --------------------------------------- SpecHealthDoc: the health request
\* overall_status with degraded taking precedence over unhealthy
overall_status_degraded_first(health) ==
    IF \E n \in DOMAIN health : health[n].status = "degraded" THEN "degraded"
    ELSE IF \E n \in DOMAIN health : health[n].status = "unhealthy" THEN "unhealthy"
    ELSE "healthy"

\* Lines 534-538
overall_status(health) ==
    IF \E n \in DOMAIN health : health[n].status = "unhealthy" THEN "unhealthy"
    ELSE IF \E n \in DOMAIN health : health[n].status = "degraded" THEN "degraded"
    ELSE "healthy"

\* What psutil reads during a health request
DocReadings == [cpu_usage : {50, 95}, memory_usage : {50}, disk_usage : {50}]

InitHealthDoc ==
    /\ RetryIdle
    /\ DelayIdle
    /\ ThreadsIdle
    /\ CacheIdle
    /\ MoreIdle

\* An application check is registered
doc_register_health_check ==
    /\ "custom" \notin CheckNames(health_checks)
    /\ health_checks' = Append(health_checks, [name |-> "custom", fn |-> "custom"])
    /\ health_op' = [op |-> "register", name |-> "custom"]
    /\ UNCHANGED <<old_vars, pattern_vars, cachet_vars, metrics_vars,
                   counter_vars, alert_vars, health_status>>

\* get_health_status (lines 527-548): it runs the checks, collects a sample
\* and reads the status of every breaker (line 531, which calls can_execute
\* on each); it calls nothing of alert_manager
get_health_status ==
    \E outcome \in OutcomeVectors(health_checks), reading \in DocReadings :
        LET health == results_of(health_checks, outcome)
            m == collect_metrics_of(collector, reading)
        IN  /\ collector.collects < MaxCollects
            /\ health_status' = status_after(health_status, health_checks, outcome)
            /\ collector' = m.c
            /\ circuit_breakers' = [s \in DOMAIN circuit_breakers |->
                                      can_execute(circuit_breakers[s]).cb]
            /\ health_op' =
                  [ op |-> "get_health_status", outcome |-> outcome,
                    ret |-> [ status   |-> overall_status(health),
                              services |-> health,
                              metrics  |-> m.ret ] ]
            /\ UNCHANGED <<settings, ctor, retry_configs, call, last_call,
                           history, delay_vars, thread_vars, cache_vars,
                           pattern_vars, cachet_vars, counter_vars, alert_vars,
                           health_checks, metrics_op>>

NextHealthDoc ==
    \/ doc_register_health_check
    \/ get_health_status

SpecHealthDoc == InitHealthDoc /\ [][NextHealthDoc]_vars

\* ---------------------------------------- SpecMetrics: the metrics collector
\* A collector is constructed with max_history drawn from 1..MaxHistory.
\* It starts empty, or as it is after Prefill requests of response time 1,
\* a wait of WINDOW seconds and one collect_metrics: request_times holds
\* Prefill values, the counters are zero and the history holds one sample.
Prefills == {0, REQUEST_TIMES_MAXLEN - 1, REQUEST_TIMES_MAXLEN}
QuietReading == [cpu_usage |-> 50, memory_usage |-> 50, disk_usage |-> 50]
MetricsReadings == [cpu_usage : {50, 95}, memory_usage : {50}, disk_usage : {50}]

Prefilled(max_history, n) ==
    IF n = 0 THEN MetricsCollector(max_history)
    ELSE collect_metrics_of(
            [MetricsCollector(max_history) EXCEPT
                !.request_times = [i \in 1 .. n |-> 1],
                !.total_requests = n,
                !.since_reset = WINDOW],
            QuietReading).c

InitMetrics ==
    /\ RetryIdle
    /\ DelayIdle
    /\ ThreadsIdle
    /\ CacheIdle
    /\ PatternIdle
    /\ CacheThreadsIdle
    /\ HealthIdle
    /\ CountersIdle
    /\ AlertsIdle
    /\ metrics_op = NoMetricsOp
    /\ \E mh \in 1 .. MaxHistory, n \in Prefills : collector = Prefilled(mh, n)

\* What the collector was before the operation, for the properties
Before(c) ==
    [ metrics_history |-> c.metrics_history,
      total_requests  |-> c.total_requests,
      error_count     |-> c.error_count,
      since_reset     |-> c.since_reset,
      buffered        |-> Len(c.request_times),
      second          |-> IF Len(c.request_times) >= 2 THEN c.request_times[2] ELSE None ]

\* record_request (lines 266-271): the collector afterwards
record_request_of(c, response_time, is_error) ==
    [c EXCEPT !.request_times = deque_append(@, response_time, REQUEST_TIMES_MAXLEN),
              !.total_requests = @ + 1,
              !.error_count = IF is_error THEN @ + 1 ELSE @]

record_request(response_time, is_error) ==
    /\ collector.total_requests < MaxRequests
    /\ collector' = record_request_of(collector, response_time, is_error)
    /\ metrics_op' = [op |-> "record_request", arg |-> response_time,
                      before |-> Before(collector)]
    /\ UNCHANGED <<old_vars, pattern_vars, cachet_vars, health_vars,
                   counter_vars, alert_vars>>

collect_metrics(reading) ==
    /\ collector.collects < MaxSamples
    /\ collector' = collect_metrics_of(collector, reading).c
    /\ metrics_op' = [op |-> "collect_metrics",
                      ret |-> collect_metrics_of(collector, reading).ret,
                      before |-> Before(collector)]
    /\ UNCHANGED <<old_vars, pattern_vars, cachet_vars, health_vars,
                   counter_vars, alert_vars>>

\* Time passes until since_reset is to; WINDOW - 1 and WINDOW are the values
\* line 321 tells apart
metrics_tick(to) ==
    /\ collector.since_reset < to
    /\ collector' = [collector EXCEPT !.since_reset = to]
    /\ metrics_op' = NoMetricsOp
    /\ UNCHANGED <<old_vars, pattern_vars, cachet_vars, health_vars,
                   counter_vars, alert_vars>>

NextMetrics ==
    \/ \E rt \in {2}, is_error \in BOOLEAN : record_request(rt, is_error)
    \/ \E reading \in MetricsReadings : collect_metrics(reading)
    \/ \E to \in {WINDOW - 1, WINDOW} : metrics_tick(to)

SpecMetrics == InitMetrics /\ [][NextMetrics]_vars

\* ------------------------- SpecCounters: threads on the collector's counters
\* metrics_collector is one process-wide object and its methods take no
\* lock.  Threads calling record_request and collect_metrics interleave
\* between the loads and stores of "self.total_requests += 1" and
\* "self.error_count += 1" and between the statements of
\* _calculate_requests_per_minute and _calculate_error_rate.
\* metrics_op counts what the threads were asked to do: the requests and the
\* errors recorded, the resets made, the error rate of the last sample and
\* whether a collect_metrics call raised.
NoCounts == [op |-> "counters", requests |-> 0, errors |-> 0, resets |-> 0,
             error_rate |-> 0, raised |-> FALSE]

InitCounters ==
    /\ RetryIdle
    /\ DelayIdle
    /\ ThreadsIdle
    /\ CacheIdle
    /\ PatternIdle
    /\ CacheThreadsIdle
    /\ HealthIdle
    /\ AlertsIdle
    /\ CountersIdle
    /\ collector = MetricsCollector(DEFAULT_MAX_HISTORY)
    /\ metrics_op = NoCounts

counters_unchanged ==
    UNCHANGED <<old_vars, pattern_vars, cachet_vars, health_vars, alert_vars>>

\* Line 268: self.request_times.append(response_time)
cr_append(t, is_error) ==
    /\ metrics_thread[t].pc = "idle"
    /\ metrics_op.requests < MaxRequests
    /\ collector' = [collector EXCEPT
          !.request_times = deque_append(@, 1, REQUEST_TIMES_MAXLEN)]
    /\ metrics_thread' = [metrics_thread EXCEPT ![t] =
          [pc |-> "load_total", is_error |-> is_error]]
    /\ metrics_op' = [metrics_op EXCEPT
          !.requests = @ + 1,
          !.errors = IF is_error THEN @ + 1 ELSE @]
    /\ counters_unchanged

\* Line 269, the load of self.total_requests
cr_load_total(t) ==
    /\ metrics_thread[t].pc = "load_total"
    /\ metrics_thread' = [metrics_thread EXCEPT ![t] =
          [pc |-> "store_total", is_error |-> @.is_error,
           loaded |-> collector.total_requests]]
    /\ UNCHANGED <<collector, metrics_op>>
    /\ counters_unchanged

\* Line 269, the store, and the test of line 270
cr_store_total(t) ==
    /\ metrics_thread[t].pc = "store_total"
    /\ collector' = [collector EXCEPT
          !.total_requests = metrics_thread[t].loaded + 1]
    /\ metrics_thread' = [metrics_thread EXCEPT ![t] =
          IF @.is_error THEN [pc |-> "load_errors"] ELSE IdleMetricsThread]
    /\ UNCHANGED metrics_op
    /\ counters_unchanged

\* Line 271, the load of self.error_count
cr_load_errors(t) ==
    /\ metrics_thread[t].pc = "load_errors"
    /\ metrics_thread' = [metrics_thread EXCEPT ![t] =
          [pc |-> "store_errors", loaded |-> collector.error_count]]
    /\ UNCHANGED <<collector, metrics_op>>
    /\ counters_unchanged

\* Line 271, the store
cr_store_errors(t) ==
    /\ metrics_thread[t].pc = "store_errors"
    /\ collector' = [collector EXCEPT
          !.error_count = metrics_thread[t].loaded + 1]
    /\ metrics_thread' = [metrics_thread EXCEPT ![t] = IdleMetricsThread]
    /\ UNCHANGED metrics_op
    /\ counters_unchanged

\* collect_metrics up to line 294, and line 321: the test of the window
cc_rpm_test(t) ==
    /\ metrics_thread[t].pc = "idle"
    /\ collector.collects < MaxCollects
    /\ metrics_thread' = [metrics_thread EXCEPT ![t] =
          IF collector.since_reset >= WINDOW
          THEN [pc |-> "reset_total"]
          ELSE [pc |-> "rate_test",
                requests_per_minute |-> collector.total_requests]]
    /\ collector' = [collector EXCEPT !.collects = @ + 1]
    /\ UNCHANGED metrics_op
    /\ counters_unchanged

\* Line 322: self.total_requests = 0
cc_reset_total(t) ==
    /\ metrics_thread[t].pc = "reset_total"
    /\ collector' = [collector EXCEPT !.total_requests = 0]
    /\ metrics_thread' = [metrics_thread EXCEPT ![t] = [pc |-> "reset_errors"]]
    /\ UNCHANGED metrics_op
    /\ counters_unchanged

\* Line 323: self.error_count = 0
cc_reset_errors(t) ==
    /\ metrics_thread[t].pc = "reset_errors"
    /\ collector' = [collector EXCEPT !.error_count = 0]
    /\ metrics_thread' = [metrics_thread EXCEPT ![t] = [pc |-> "reset_time"]]
    /\ UNCHANGED metrics_op
    /\ counters_unchanged

\* Lines 324-325: self.last_reset = now; return 0.0
cc_reset_time(t) ==
    /\ metrics_thread[t].pc = "reset_time"
    /\ collector' = [collector EXCEPT !.since_reset = 0]
    /\ metrics_thread' = [metrics_thread EXCEPT ![t] =
          [pc |-> "rate_test", requests_per_minute |-> 0]]
    /\ metrics_op' = [metrics_op EXCEPT !.resets = @ + 1]
    /\ counters_unchanged

\* Lines 332-333: if self.total_requests == 0: return 0.0
cc_rate_test(t) ==
    /\ metrics_thread[t].pc = "rate_test"
    /\ metrics_thread' = [metrics_thread EXCEPT ![t] =
          IF collector.total_requests = 0
          THEN [pc |-> "append",
                requests_per_minute |-> @.requests_per_minute,
                error_rate |-> 0]
          ELSE [pc |-> "rate_load_errors",
                requests_per_minute |-> @.requests_per_minute]]
    /\ UNCHANGED <<collector, metrics_op>>
    /\ counters_unchanged

\* Line 334, the load of self.error_count
cc_rate_load_errors(t) ==
    /\ metrics_thread[t].pc = "rate_load_errors"
    /\ metrics_thread' = [metrics_thread EXCEPT ![t] =
          [pc |-> "rate_divide",
           requests_per_minute |-> @.requests_per_minute,
           loaded |-> collector.error_count]]
    /\ UNCHANGED <<collector, metrics_op>>
    /\ counters_unchanged

\* Line 334, the load of self.total_requests and the division, which raises
\* ZeroDivisionError out of collect_metrics when the total is 0 by now
cc_rate_divide(t) ==
    /\ metrics_thread[t].pc = "rate_divide"
    /\ IF collector.total_requests = 0
       THEN /\ metrics_thread' = [metrics_thread EXCEPT ![t] = IdleMetricsThread]
            /\ metrics_op' = [metrics_op EXCEPT !.raised = TRUE]
       ELSE /\ metrics_thread' = [metrics_thread EXCEPT ![t] =
                  [pc |-> "append",
                   requests_per_minute |-> @.requests_per_minute,
                   error_rate |-> (metrics_thread[t].loaded * 100)
                                      \div collector.total_requests]]
            /\ UNCHANGED metrics_op
    /\ UNCHANGED collector
    /\ counters_unchanged

\* Lines 302-316: the sample is built, appended and returned
cc_append(t) ==
    /\ metrics_thread[t].pc = "append"
    /\ collector' = [collector EXCEPT
          !.metrics_history = deque_append(@,
              [ serial |-> collector.collects,
                cpu_usage |-> QuietReading.cpu_usage,
                memory_usage |-> QuietReading.memory_usage,
                disk_usage |-> QuietReading.disk_usage,
                requests_per_minute |-> metrics_thread[t].requests_per_minute,
                error_rate |-> metrics_thread[t].error_rate ],
              collector.max_history)]
    /\ metrics_thread' = [metrics_thread EXCEPT ![t] = IdleMetricsThread]
    /\ metrics_op' = [metrics_op EXCEPT !.error_rate = metrics_thread[t].error_rate]
    /\ counters_unchanged

\* WINDOW seconds have passed since the last reset
counters_tick ==
    /\ collector.since_reset < WINDOW
    /\ collector' = [collector EXCEPT !.since_reset = WINDOW]
    /\ UNCHANGED <<metrics_thread, metrics_op>>
    /\ counters_unchanged

NextCounters ==
    \/ \E t \in Procs, is_error \in BOOLEAN : cr_append(t, is_error)
    \/ \E t \in Procs : cr_load_total(t)
    \/ \E t \in Procs : cr_store_total(t)
    \/ \E t \in Procs : cr_load_errors(t)
    \/ \E t \in Procs : cr_store_errors(t)
    \/ \E t \in Procs : cc_rpm_test(t)
    \/ \E t \in Procs : cc_reset_total(t)
    \/ \E t \in Procs : cc_reset_errors(t)
    \/ \E t \in Procs : cc_reset_time(t)
    \/ \E t \in Procs : cc_rate_test(t)
    \/ \E t \in Procs : cc_rate_load_errors(t)
    \/ \E t \in Procs : cc_rate_divide(t)
    \/ \E t \in Procs : cc_append(t)
    \/ counters_tick

SpecCounters == InitCounters /\ [][NextCounters]_vars

\* --------------------------------------------- SpecAlerts: the alert manager
\* setup_default_rules (lines 384-422), in the order of the dict
alert_rules ==
    << [name |-> "high_cpu", metric |-> "cpu_usage", threshold |-> 90,
        operator |-> ">", severity |-> "warning",
        message |-> "CPU usage is above 90%"],
       [name |-> "high_memory", metric |-> "memory_usage", threshold |-> 90,
        operator |-> ">", severity |-> "warning",
        message |-> "Memory usage is above 90%"],
       [name |-> "high_disk", metric |-> "disk_usage", threshold |-> 90,
        operator |-> ">", severity |-> "critical",
        message |-> "Disk usage is above 90%"],
       [name |-> "high_error_rate", metric |-> "error_rate", threshold |-> 10,
        operator |-> ">", severity |-> "critical",
        message |-> "Error rate is above 10%"],
       [name |-> "service_unhealthy", metric |-> "service_status",
        threshold |-> "unhealthy", operator |-> "==", severity |-> "critical",
        message |-> "Service is unhealthy"] >>

ScalarMetrics == {"cpu_usage", "memory_usage", "disk_usage", "error_rate"}

\* _evaluate_condition with '>' read as '>='
evaluate_condition_inclusive(value, operator, threshold) ==
    CASE operator = ">"  -> value >= threshold
      [] operator = "<"  -> value < threshold
      [] operator = ">=" -> value >= threshold
      [] operator = "<=" -> value <= threshold
      [] operator = "==" -> value = threshold
      [] operator = "!=" -> value # threshold
      [] OTHER -> FALSE

\* _evaluate_condition (lines 467-481)
evaluate_condition(value, operator, threshold) ==
    CASE operator = ">"  -> value > threshold
      [] operator = "<"  -> value < threshold
      [] operator = ">=" -> value >= threshold
      [] operator = "<=" -> value <= threshold
      [] operator = "==" -> value = threshold
      [] operator = "!=" -> value # threshold
      [] OTHER -> FALSE

\* Lines 438-447: the alert of a rule; the id is the rule's name and the
\* second, the timestamp is the same clock
metric_alert(rule, metric_value, now) ==
    [ id        |-> <<rule.name, now>>,
      rule      |-> rule.name,
      severity  |-> rule.severity,
      message   |-> rule.message,
      metric    |-> rule.metric,
      value     |-> metric_value,
      threshold |-> rule.threshold,
      timestamp |-> now ]

\* Lines 453-460: the alert of an unhealthy service
service_alert(health, now) ==
    [ id        |-> <<"service", health.name, now>>,
      rule      |-> "service_unhealthy",
      severity  |-> "critical",
      message   |-> <<"Service", health.name, "is unhealthy:", health.error_message>>,
      service   |-> health.name,
      timestamp |-> now ]

\* Lines 433-448: the alerts of the rules on the four scalar metrics
RECURSIVE metric_alerts(_, _, _)
metric_alerts(rules, metrics, now) ==
    IF rules = << >> THEN << >>
    ELSE LET rule == Head(rules)
             rest == metric_alerts(Tail(rules), metrics, now)
         IN  IF rule.metric \in ScalarMetrics
                  /\ evaluate_condition(metrics[rule.metric], rule.operator,
                                        rule.threshold)
             THEN <<metric_alert(rule, metrics[rule.metric], now)>> \o rest
             ELSE rest

\* Lines 450-461: the alerts of the unhealthy records
RECURSIVE service_alerts(_, _)
service_alerts(records, now) ==
    IF records = << >> THEN << >>
    ELSE IF Head(records).status = "unhealthy"
         THEN <<service_alert(Head(records), now)>>
                  \o service_alerts(Tail(records), now)
         ELSE service_alerts(Tail(records), now)

\* The samples and the health records check_alerts is called with: every
\* metric at or below its threshold, cpu_usage alone above it, error_rate
\* alone above it, and all four above; no record, one unhealthy, none
\* unhealthy, two unhealthy
AlertSample(cpu, memory, disk, errors) ==
    [cpu_usage |-> cpu, memory_usage |-> memory, disk_usage |-> disk,
     error_rate |-> errors]

AlertSamples ==
    { AlertSample(90, 50, 50, 10), AlertSample(95, 50, 50, 0),
      AlertSample(50, 50, 50, 11), AlertSample(95, 91, 100, 100) }

AlertHealth ==
    { << >>,
      <<ServiceHealth("database", "unhealthy", "Database connection failed")>>,
      <<ServiceHealth("database", "healthy", "None"),
        ServiceHealth("cache", "degraded", "None")>>,
      <<ServiceHealth("database", "unhealthy", "Database connection failed"),
        ServiceHealth("cache", "unhealthy", "str(e)")>> }

InitAlerts ==
    /\ RetryIdle
    /\ DelayIdle
    /\ ThreadsIdle
    /\ CacheIdle
    /\ PatternIdle
    /\ CacheThreadsIdle
    /\ HealthIdle
    /\ MetricsIdle
    /\ CountersIdle
    /\ AlertsIdle

alerts_unchanged ==
    UNCHANGED <<old_vars, pattern_vars, cachet_vars, health_vars,
                metrics_vars, counter_vars, alert_handlers>>

\* check_alerts (lines 428-465) with no handler registered: _process_alert
\* appends each alert to self.alerts
check_alerts(metrics, records) ==
    /\ alert_op.checks < MaxChecks
    /\ alerts' = alerts \o metric_alerts(alert_rules, metrics, alert_clock)
                        \o service_alerts(records, alert_clock)
    /\ alert_op' = [op |-> "check_alerts", metrics |-> metrics,
                    health_status |-> records, before |-> alerts,
                    checks |-> alert_op.checks + 1, ticks |-> alert_op.ticks]
    /\ UNCHANGED alert_clock
    /\ alerts_unchanged

\* get_recent_alerts (lines 496-499): the value returned
recent_alerts(all, now, hours) ==
    SelectSeq(all, LAMBDA alert : alert.timestamp >= now - hours * 3600)

get_recent_alerts(hours) ==
    /\ alert_op' = [op |-> "get_recent_alerts", hours |-> hours,
                    ret |-> recent_alerts(alerts, alert_clock, hours),
                    checks |-> alert_op.checks, ticks |-> alert_op.ticks]
    /\ UNCHANGED <<alerts, alert_clock>>
    /\ alerts_unchanged

\* A second or a day passes
alerts_tick(seconds) ==
    /\ alert_op.ticks < MaxTicks
    /\ alert_clock' = alert_clock + seconds
    /\ alert_op' = [op |-> "tick", checks |-> alert_op.checks,
                    ticks |-> alert_op.ticks + 1]
    /\ UNCHANGED alerts
    /\ alerts_unchanged

NextAlerts ==
    \/ \E metrics \in AlertSamples, records \in AlertHealth :
          check_alerts(metrics, records)
    \/ \E hours \in {1, 24} : get_recent_alerts(hours)
    \/ \E seconds \in {1, 86400} : alerts_tick(seconds)

SpecAlerts == InitAlerts /\ [][NextAlerts]_vars

\* ------------------------------------ SpecDispatch: alerts and their handlers
\* A handler returns, or raises an Exception
HandlerKinds == {"returns", "raises"}

InitDispatch == InitAlerts

dispatch_unchanged ==
    UNCHANGED <<old_vars, pattern_vars, cachet_vars, health_vars,
                metrics_vars, counter_vars>>

\* add_alert_handler (lines 424-426)
add_alert_handler(handler) ==
    /\ Len(alert_handlers) < MaxHandlers
    /\ alert_handlers' = Append(alert_handlers, handler)
    /\ alert_op' = [op |-> "add_alert_handler", checks |-> alert_op.checks,
                    ticks |-> alert_op.ticks]
    /\ UNCHANGED <<alerts, alert_clock>>
    /\ dispatch_unchanged

\* The loop of lines 488-492 leaving at the first handler that raises
invoke_handlers_until_raise(handlers, alert, seen) ==
    LET raising == { i \in 1 .. Len(handlers) : handlers[i] = "raises" }
        last == IF raising = {} THEN Len(handlers)
                ELSE CHOOSE i \in raising : \A j \in raising : i <= j
    IN  [ i \in 1 .. last |->
            [handler |-> i, id |-> alert.id, seen |-> seen, raised |-> handlers[i] = "raises"] ]

\* Lines 488-492: each handler is called with the alert, in the order of the
\* list, inside try/except Exception; seen is the length of self.alerts the
\* handler finds
invoke_handlers(handlers, alert, seen) ==
    [ i \in 1 .. Len(handlers) |->
        [handler |-> i, id |-> alert.id, seen |-> seen, raised |-> handlers[i] = "raises"] ]

\* Lines 463-465 and _process_alert (483-494) for each alert in turn: the
\* history and the handler calls afterwards
RECURSIVE process_alerts(_, _, _)
process_alerts(new, handlers, so_far) ==
    IF new = << >> THEN [alerts |-> so_far, calls |-> << >>]
    ELSE LET appended == Append(so_far, Head(new))
             calls == invoke_handlers(handlers, Head(new), Len(appended))
             rest == process_alerts(Tail(new), handlers, appended)
         IN  [alerts |-> rest.alerts, calls |-> calls \o rest.calls]

\* check_alerts (lines 428-465) with the registered handlers; it returns
\* None, no exception of a handler leaving _process_alert
dispatch_check_alerts(metrics, records) ==
    /\ alert_op.checks < MaxChecks
    /\ LET new == metric_alerts(alert_rules, metrics, alert_clock)
                     \o service_alerts(records, alert_clock)
           done == process_alerts(new, alert_handlers, alerts)
       IN  /\ alerts' = done.alerts
           /\ alert_op' = [op |-> "check_alerts", metrics |-> metrics,
                           health_status |-> records, before |-> alerts,
                           new |-> new, calls |-> done.calls, ret |-> "None",
                           checks |-> alert_op.checks + 1,
                           ticks |-> alert_op.ticks]
    /\ UNCHANGED <<alert_clock, alert_handlers>>
    /\ dispatch_unchanged

NextDispatch ==
    \/ \E handler \in HandlerKinds : add_alert_handler(handler)
    \/ \E metrics \in AlertSamples, records \in AlertHealth :
          dispatch_check_alerts(metrics, records)

SpecDispatch == InitDispatch /\ [][NextDispatch]_vars

\* ------------------------------- SpecBreaker: the breakers called one by one
\* Sequential calls of the breaker methods and of the utility functions of
\* lines 284-311 on the breakers of two services.  last_call is the call
\* made last: the registry before it and the value returned.
BreakerNames == {"ai_service", "database"}
NoBreakerCall == [op |-> "none"]

InitBreaker ==
    /\ settings = [MAX_RETRIES |-> MaxRetriesArg, RETRY_DELAY |-> settings_RETRY_DELAY]
    /\ ctor \in [ failure_threshold : 1 .. MaxThreshold,
                  recovery_timeout  : {MaxTimeout} ]
    /\ circuit_breakers = << >>
    /\ retry_configs = << >>
    /\ call = [p \in Procs |-> IdleFrame]
    /\ last_call = NoBreakerCall
    /\ history = [s \in Services |-> NoHistory]
    /\ DelayIdle
    /\ ThreadsIdle
    /\ CacheIdle
    /\ MoreIdle

breaker_unchanged ==
    UNCHANGED <<other_vars, settings, ctor, retry_configs, call, history>>

\* ret is what can_execute returned; the other calls return None, but for
\* the status functions, whose dicts are kept in status by service name
BreakerCall(op, service_name, ret) ==
    [op |-> op, service |-> service_name, before |-> circuit_breakers, ret |-> ret]

StatusCall(op, service_name, status) ==
    [op |-> op, service |-> service_name, before |-> circuit_breakers,
     status |-> status]

\* retry_manager.get_circuit_breaker(service_name) for a new name (lines 106-111)
breaker_create(service_name) ==
    /\ service_name \notin DOMAIN circuit_breakers
    /\ circuit_breakers' = get_circuit_breaker(circuit_breakers, service_name)
    /\ last_call' = BreakerCall("get_circuit_breaker", service_name, TRUE)
    /\ breaker_unchanged

\* circuit_breaker.can_execute() (lines 61-74)
breaker_can_execute(service_name) ==
    /\ service_name \in DOMAIN circuit_breakers
    /\ LET r == can_execute(circuit_breakers[service_name])
       IN  /\ circuit_breakers' = [circuit_breakers EXCEPT ![service_name] = r.cb]
           /\ last_call' = BreakerCall("can_execute", service_name, r.ret)
    /\ breaker_unchanged

\* circuit_breaker.on_success() (lines 76-86)
breaker_on_success(service_name) ==
    /\ service_name \in DOMAIN circuit_breakers
    /\ circuit_breakers' = [circuit_breakers EXCEPT ![service_name] = on_success(@)]
    /\ last_call' = BreakerCall("on_success", service_name, TRUE)
    /\ breaker_unchanged

\* circuit_breaker.on_failure() (lines 88-98)
breaker_on_failure(service_name) ==
    /\ service_name \in DOMAIN circuit_breakers
    /\ circuit_breakers[service_name].failure_count <= MaxFailures
    /\ circuit_breakers' = [circuit_breakers EXCEPT ![service_name] = on_failure(@)]
    /\ last_call' = BreakerCall("on_failure", service_name, TRUE)
    /\ breaker_unchanged

\* reset_circuit_breaker (lines 296-304)
breaker_reset(service_name) ==
    /\ circuit_breakers' =
          IF service_name \in DOMAIN circuit_breakers
          THEN [circuit_breakers EXCEPT ![service_name] = reset_fields(@)]
          ELSE circuit_breakers
    /\ last_call' = BreakerCall("reset_circuit_breaker", service_name, TRUE)
    /\ breaker_unchanged

\* Lines 286-294: the dict is built from the breaker get_circuit_breaker
\* returns, its last entry calling can_execute
status_of(cbs, service_name) ==
    LET cb == get_circuit_breaker(cbs, service_name)[service_name]
    IN  [ service           |-> service_name,
          state             |-> cb.state,
          failure_count     |-> cb.failure_count,
          success_count     |-> cb.success_count,
          last_failure_time |-> cb.since_failure,
          can_execute       |-> can_execute(cb).ret ]

\* The registry after get_circuit_breaker_status(service_name)
registry_after_status(cbs, service_name) ==
    LET cbs1 == get_circuit_breaker(cbs, service_name)
    IN  [cbs1 EXCEPT ![service_name] = can_execute(@).cb]

\* get_circuit_breaker_status (lines 284-294)
breaker_status(service_name) ==
    /\ circuit_breakers' = registry_after_status(circuit_breakers, service_name)
    /\ last_call' = StatusCall("get_circuit_breaker_status", service_name,
                               [n \in {service_name} |-> status_of(circuit_breakers, n)])
    /\ breaker_unchanged

\* get_all_circuit_breaker_status (lines 306-311)
breaker_all_status ==
    /\ circuit_breakers' = [n \in DOMAIN circuit_breakers |->
                              can_execute(circuit_breakers[n]).cb]
    /\ last_call' = StatusCall("get_all_circuit_breaker_status", "all",
          [n \in DOMAIN circuit_breakers |-> status_of(circuit_breakers, n)])
    /\ breaker_unchanged

\* One second passes
breaker_tick ==
    /\ \E n \in DOMAIN circuit_breakers : Ageing(circuit_breakers[n])
    /\ circuit_breakers' = [n \in DOMAIN circuit_breakers |->
          IF Ageing(circuit_breakers[n])
          THEN [circuit_breakers[n] EXCEPT !.since_failure = @ + 1]
          ELSE circuit_breakers[n]]
    /\ last_call' = NoBreakerCall
    /\ breaker_unchanged

NextBreaker ==
    \/ \E n \in BreakerNames : breaker_create(n)
    \/ \E n \in BreakerNames : breaker_can_execute(n)
    \/ \E n \in BreakerNames : breaker_on_success(n)
    \/ \E n \in BreakerNames : breaker_on_failure(n)
    \/ \E n \in BreakerNames : breaker_reset(n)
    \/ \E n \in BreakerNames : breaker_status(n)
    \/ breaker_all_status
    \/ breaker_tick

SpecBreaker == InitBreaker /\ [][NextBreaker]_vars

\* SpecRecovery: time keeps passing and callers keep calling can_execute and
\* reporting successes
SpecRecovery ==
    /\ SpecBreaker
    /\ WF_vars(breaker_tick)
    /\ \A n \in BreakerNames : WF_vars(breaker_can_execute(n))
    /\ \A n \in BreakerNames : WF_vars(breaker_on_success(n))

\* ------------------------------------------ SpecCached: the cached decorator
\* CacheManager.get (lines 69-75) at time now: the store afterwards and the
\* value returned, "None" being Python's None
get_of(mc, k, now) ==
    IF k \in DOMAIN mc /\ mc[k].expires_at > now
    THEN [mc |-> mc, ret |-> mc[k].value]
    ELSE [mc |-> without(mc, {k}), ret |-> "None"]

\* CacheManager.set (lines 51-55) at time now: the store afterwards
set_of(mc, k, v, expire, now) ==
    with(mc, k, [value |-> v, expires_at |-> now + expire_or_default(expire)])

\* ":".join(key_parts) (line 41), strings being sequences of characters
RECURSIVE join(_)
join(parts) ==
    IF parts = << >> THEN << >>
    ELSE IF Len(parts) = 1 THEN Head(parts)
    ELSE Head(parts) \o <<":">> \o join(Tail(parts))

\* _generate_key (lines 29-42) for positional arguments; the md5 digest of
\* the joined string is written <<"md5", joined string>>, equal exactly when
\* the joined strings are
generate_key(prefix, args) == <<"md5">> \o join(<<prefix>> \o args)

\* The decorated functions: cached(prefix, expire)
CachedDecorators ==
    { [prefix |-> <<"p">>, expire |-> 1], [prefix |-> <<"q">>, expire |-> 2] }

\* The positional arguments of a call, each str(arg) a string, and what the
\* wrapped function returns when it is executed
CachedArgs == { << <<"a">> >>, << <<"a">>, <<"b">> >>, << <<"a", ":", "b">> >> }
CachedResults == {"None", "r1"}

InitCached ==
    /\ RetryIdle
    /\ DelayIdle
    /\ ThreadsIdle
    /\ CacheIdle
    /\ MoreIdle

cached_unchanged ==
    UNCHANGED <<more_vars, retry_vars, delay_vars, thread_vars, last_set>>

\* wrapper (lines 177-192): result is what func returns if it is executed
cached_wrapper(d, args, result) ==
    LET cache_key == generate_key(d.prefix, args)
        got == get_of(memory_cache, cache_key, clock)
        hit == got.ret # "None"
    IN  /\ memory_cache' = IF hit THEN got.mc
                           ELSE set_of(got.mc, cache_key, result, d.expire, clock)
        /\ cache_op' = [ op |-> "cached", key |-> cache_key,
                         executed |-> ~hit,
                         ret |-> IF hit THEN got.ret ELSE result,
                         before |-> memory_cache, at |-> clock ]
        /\ UNCHANGED clock
        /\ cached_unchanged

\* One second passes
cached_tick ==
    /\ clock < MaxClock
    /\ clock' = clock + 1
    /\ cache_op' = NoCacheOp
    /\ UNCHANGED memory_cache
    /\ cached_unchanged

NextCached ==
    \/ \E d \in CachedDecorators, args \in CachedArgs, result \in CachedResults :
          cached_wrapper(d, args, result)
    \/ cached_tick

SpecCached == InitCached /\ [][NextCached]_vars

\* -------------------------------------------- SpecRateLimit: check_rate_limit
\* Sequential calls of check_rate_limit (security.py, lines 284-309) for one
\* client with the same limit and window.  cache_op carries the limit, the
\* window and the times of the calls admitted so far.
RateKey == <<"rate_limit", ":", "client">>

InitRateLimit ==
    /\ RetryIdle
    /\ DelayIdle
    /\ ThreadsIdle
    /\ MoreIdle
    /\ memory_cache = << >>
    /\ clock = 0
    /\ last_set = [k \in CacheKeys |-> NoSet]
    /\ \E limit \in 0 .. MaxLimit, window \in 1 .. MaxWindow :
          cache_op = [op |-> "none", limit |-> limit, window |-> window,
                      calls |-> 0, admitted |-> << >>]

\* Lines 292-309: the store afterwards and the value returned.  An entry's
\* value is (count, window_start_time)
check_rate_limit_of(mc, limit, window, now) ==
    LET got == get_of(mc, RateKey, now)
    IN  IF got.ret # "None"
        THEN LET count == got.ret[1]
                 window_start_time == got.ret[2]
             IN  IF now - window_start_time < window
                 THEN IF count >= limit
                      THEN [mc |-> got.mc, ret |-> FALSE]
                      ELSE [mc |-> set_of(got.mc, RateKey,
                                      <<count + 1, window_start_time>>, window, now),
                            ret |-> TRUE]
                 ELSE [mc |-> set_of(got.mc, RateKey, <<1, now>>, window, now),
                       ret |-> TRUE]
        ELSE [mc |-> set_of(got.mc, RateKey, <<1, now>>, window, now),
              ret |-> TRUE]

check_rate_limit ==
    LET r == check_rate_limit_of(memory_cache, cache_op.limit, cache_op.window, clock)
    IN  /\ cache_op.calls < MaxRateCalls
        /\ memory_cache' = r.mc
        /\ cache_op' = [ op |-> "check_rate_limit", limit |-> cache_op.limit,
                         window |-> cache_op.window, calls |-> cache_op.calls + 1,
                         admitted |-> IF r.ret THEN Append(cache_op.admitted, clock)
                                      ELSE cache_op.admitted,
                         ret |-> r.ret, before |-> memory_cache ]
        /\ UNCHANGED clock
        /\ cached_unchanged

\* One second passes
rate_tick ==
    /\ clock < MaxClock
    /\ clock' = clock + 1
    /\ cache_op' = [ op |-> "tick", limit |-> cache_op.limit,
                     window |-> cache_op.window, calls |-> cache_op.calls,
                     admitted |-> cache_op.admitted ]
    /\ UNCHANGED memory_cache
    /\ cached_unchanged

NextRateLimit ==
    \/ check_rate_limit
    \/ rate_tick

SpecRateLimit == InitRateLimit /\ [][NextRateLimit]_vars

\* C11: with jitter disabled calculate_delay returns min(d, max_delay), d
\* being base_delay (Fixed), base_delay * attempt (Linear) or
\* base_delay * backoff_factor^(attempt-1) (Exponential); Exponential with
\* base_delay 1, backoff_factor 2 and max_delay 60 gives 1, 2, 4 for
\* attempts 1, 2, 3 and 60 from attempt 7 on.
C11_d(attempt, config) ==
    CASE config.strategy = FIXED -> config.base_delay
      [] config.strategy = LINEAR -> config.base_delay * attempt
      [] config.strategy = EXPONENTIAL ->
            config.base_delay * Pow(config.backoff_factor, attempt - 1)

C11_JitterFreeDelay ==
    (delay_call.attempt >= 1 /\ delay_call.out # None /\ ~delay_call.config.jitter)
    => LET a == delay_call.attempt
           c == delay_call.config
       IN  /\ delay_call.out = Min(C11_d(a, c), c.max_delay)
           /\ (c.strategy = EXPONENTIAL /\ c.base_delay = 1
                  /\ c.backoff_factor = 2 /\ c.max_delay = 60)
              => /\ a = 1 => delay_call.out = 1
                 /\ a = 2 => delay_call.out = 2
                 /\ a = 3 => delay_call.out = 4
                 /\ a >= 7 => delay_call.out = 60

\* the exponential delay of attempt 7 has been clamped to 60
C11_Witness ==
    /\ delay_call.attempt = 7
    /\ delay_call.out = 60
    /\ ~delay_call.config.jitter
    /\ delay_call.config.strategy = EXPONENTIAL
    /\ delay_call.config.base_delay = 1
    /\ delay_call.config.backoff_factor = 2

\* C12: with jitter enabled calculate_delay returns c + jitter, c being the
\* clamped jitter-free delay min(d, max_delay) and 0 <= jitter <= 0.1 * c.
C12_JitterAddedToClamped ==
    (delay_call.attempt >= 1 /\ delay_call.out # None /\ delay_call.config.jitter)
    => LET c == Min(C11_d(delay_call.attempt, delay_call.config),
                    delay_call.config.max_delay)
       IN  /\ delay_call.out >= c
           /\ 10 * (delay_call.out - c) <= c
           /\ 10 * delay_call.j <= c => delay_call.out = c + delay_call.j

\* C13: a call cancelled during its inter-attempt delay stops waiting and
\* raises the cancellation to its caller; it has invoked the operation once
\* per attempt made before the delay and never again, and the breaker
\* methods it called are one on_failure per failed attempt: the step that
\* cancelled it called none.
C13_CancelledInDelay ==
    \A p \in Procs :
        call[p].cancelled =>
            /\ call[p].pc = "raised"
            /\ call[p].raised = Exc("CancelledError", call[p].attempt)
            /\ call[p].remaining = 0
            /\ call[p].invoked = call[p].attempt
            /\ call[p].slept = call[p].attempt
            /\ call[p].failures = call[p].attempt
            /\ call[p].successes = 0
            /\ LET c == last_call[call[p].service_name]
               IN  c.method = "none" \/ c.by # p

\* a call was cancelled in the delay after its first attempt, with time
\* left to wait and attempts left to make
C13_Witness ==
    \E p \in Procs :
        /\ call[p].cancelled
        /\ call[p].attempt = 1
        /\ call[p].attempt + 1 < call[p].stop
        /\ last_call[call[p].service_name].method = "none"

\* no thread is inside on_failure
Quiescent == \A t \in Procs : thread[t].pc \notin {"of_store", "of_stamp", "of_check"}

\* C14: on_failure is atomic under concurrent callers: once the k calls made
\* on a breaker have returned, its failure_count is k (no update is lost)
\* and its state is the one k calls in a row leave, Open exactly when k has
\* reached failure_threshold.
C14_NoLostUpdate ==
    Quiescent =>
        \A i \in DOMAIN heap :
            /\ heap[i].obj.failure_count = heap[i].applied
            /\ heap[i].obj.state = OPEN
                  <=> heap[i].applied >= heap[i].obj.failure_threshold

\* C15: concurrent first callers for a service name all hold the one breaker
\* object that stays in the registry, and no failure is recorded on an
\* object the registry does not hold.
C15_OneInstance ==
    /\ \A t \in Procs :
          thread[t].ref # 0 => thread[t].ref = registry[TheService]
    /\ \A i \in DOMAIN heap :
          heap[i].obj.failure_count > 0 => registry[TheService] = i

\* the set(k, v, ttl) recorded for k ran more than ttl seconds before the
\* last operation
TtlPassed(k) ==
    /\ last_set[k].at # None
    /\ last_set[k].ttl # None
    /\ cache_op.at - last_set[k].at > last_set[k].ttl

\* C16: after set(k, v, ttl) with nothing else written to k, once more than
\* ttl seconds have passed get(k) returns absent and removes the entry,
\* exists(k) is false and get_stats' active_keys does not count k; before
\* ttl seconds have passed get(k) returns v.
C16_ExpiresAfterTtl ==
    cache_op.op # "none" =>
        \A k \in CacheKeys :
            /\ (cache_op.op = "get" /\ cache_op.key = k /\ TtlPassed(k))
                  => cache_op.ret = "None" /\ k \notin DOMAIN memory_cache
            /\ (cache_op.op = "get" /\ cache_op.key = k
                   /\ last_set[k].at # None /\ last_set[k].ttl # None
                   /\ cache_op.at - last_set[k].at < last_set[k].ttl)
                  => cache_op.ret = last_set[k].value
            /\ (cache_op.op = "exists" /\ cache_op.key = k /\ TtlPassed(k))
                  => cache_op.ret # "True"
            /\ cache_op.op = "get_stats"
                  => cache_op.ret.active_keys <=
                        Cardinality({x \in DOMAIN cache_op.before : ~TtlPassed(x)})

\* C17: expire(k, seconds) sets expires_at = now + seconds on a live entry;
\* on an absent key and on an entry whose expires_at has passed it changes
\* nothing, so the entry is not readable afterwards.
C17_ExpireOnlyLive ==
    cache_op.op = "expire" =>
        LET k == cache_op.key
            b == cache_op.before
            live == k \in DOMAIN b /\ b[k].expires_at > cache_op.at
        IN  /\ live => memory_cache[k].expires_at = cache_op.at + cache_op.arg
            /\ ~live =>
                  /\ k \in DOMAIN memory_cache => memory_cache[k] = b[k]
                  /\ ~(k \in DOMAIN memory_cache
                          /\ memory_cache[k].expires_at > cache_op.at)

\* C18: on an entry whose expires_at has passed, exists(k) reports false,
\* delete(k) reports that nothing was deleted, and the call evicts the entry.
C18_DeleteExistsLazyExpiry ==
    cache_op.op \in {"delete", "exists"} =>
        LET k == cache_op.key
            b == cache_op.before
        IN  (k \in DOMAIN b /\ b[k].expires_at <= cache_op.at) =>
                /\ k \notin DOMAIN memory_cache
                /\ cache_op.op = "exists" => cache_op.ret # "True"
                /\ cache_op.op = "delete" => cache_op.ret = FALSE

\* C19: set(k, v, ttl) stores v with expires_at = now + ttl for every ttl
\* passed, 0 included, and with now + 3600 when none is passed; it replaces
\* the entry of k and changes no other key.
C19_SetStoresTtl ==
    cache_op.op = "set" =>
        LET k == cache_op.key
            b == cache_op.before
            ttl == cache_op.arg.expire
        IN  /\ DOMAIN memory_cache = DOMAIN b \cup {k}
            /\ memory_cache[k] =
                  [ value |-> cache_op.arg.value,
                    expires_at |-> cache_op.at +
                        (IF ttl = None THEN DEFAULT_EXPIRE ELSE ttl) ]
            /\ \A x \in DOMAIN b \ {k} : memory_cache[x] = b[x]

\* the characters of p other than '*', in order
C20_Literal(p) ==
    LET idx == {i \in 1 .. Len(p) : p[i] # "*"}
    IN  [j \in 1 .. Cardinality(idx) |->
            p[CHOOSE i \in idx : Cardinality({m \in idx : m <= i}) = j]]

C20_Contains(key, lit) ==
    \E i \in 1 .. (Len(key) - Len(lit) + 1) :
        \A j \in 1 .. Len(lit) : key[i + j - 1] = lit[j]

\* C20: clear_pattern(p) removes exactly the keys that contain, anywhere,
\* p without its wildcard characters '*', returns how many it removed, and
\* leaves every other key with its value and expires_at.
C20_ClearPattern ==
    cache_op.op = "clear_pattern" =>
        LET b == cache_op.before
            gone == {k \in DOMAIN b : C20_Contains(k, C20_Literal(cache_op.key))}
        IN  /\ DOMAIN memory_cache = DOMAIN b \ gone
            /\ \A x \in DOMAIN memory_cache : memory_cache[x] = b[x]
            /\ cache_op.ret = Cardinality(gone)

\* clear_pattern("b*a") removed the key "ba" and left the key "a"
C20_Witness ==
    /\ cache_op.op = "clear_pattern"
    /\ cache_op.key = <<"b", "*", "a">>
    /\ cache_op.ret = 1
    /\ DOMAIN cache_op.before = CacheKeys
    /\ DOMAIN memory_cache = { <<"a">> }

\* C21 as stated: clear_pattern("user:*") and clear_pattern("user:profile*")
\* applied to the same store delete the same keys and return the same count.
C21_SameBehaviour ==
    (pattern_call.done /\ pattern_call.p = UserStar
         /\ pattern_call.q = UserProfileStar)
    => pattern_call.out_p = pattern_call.out_q

\* C21, amended: clear_pattern("user:*") deletes the keys containing "user:"
\* and clear_pattern("user:profile*") the keys containing "user:profile", so
\* the second deletes a subset of what the first deletes and returns no
\* larger a count; they behave identically exactly on the stores in which
\* every key containing "user:" also contains "user:profile".
C21_SubsetBehaviour ==
    (pattern_call.done /\ pattern_call.p = UserStar
         /\ pattern_call.q = UserProfileStar)
    => LET st == pattern_call.store
           has_user == {k \in DOMAIN st : C20_Contains(k, <<"u">>)}
           has_profile == {k \in DOMAIN st : C20_Contains(k, <<"u", "p">>)}
       IN  /\ pattern_call.out_p.deleted = has_user
           /\ pattern_call.out_q.deleted = has_profile
           /\ pattern_call.out_q.deleted \subseteq pattern_call.out_p.deleted
           /\ pattern_call.out_p.ret = Cardinality(has_user)
           /\ pattern_call.out_q.ret = Cardinality(has_profile)
           /\ pattern_call.out_q.ret <= pattern_call.out_p.ret
           /\ DOMAIN pattern_call.out_p.store = DOMAIN st \ has_user
           /\ DOMAIN pattern_call.out_q.store = DOMAIN st \ has_profile
           /\ (pattern_call.out_p = pattern_call.out_q) <=> (has_user = has_profile)

\* "user:*" removed a key holding "user:profile" away from its start and a
\* key without it; "user:profile*" removed only the first and left the second
C21_Witness ==
    /\ pattern_call.done
    /\ pattern_call.p = UserStar
    /\ pattern_call.q = UserProfileStar
    /\ <<"q", "u", "p">> \in pattern_call.out_q.deleted
    /\ <<"u", "q">> \in pattern_call.out_p.deleted
    /\ <<"u", "q">> \in DOMAIN pattern_call.out_q.store

\* C22: get and set on one key exclude each other: when no get(k) is under
\* way and the ttl of the last set(k, v, ttl) has not passed, the entry it
\* stored is in the store, so get(k) returns v; the eviction of an older,
\* expired entry by a concurrent get has not removed it.
C22_EvictionSparesNewEntry ==
    \A k \in CacheKeys :
        (/\ \A t \in Procs :
                cache_thread[t].pc # "idle" => cache_thread[t].key # k
         /\ last_set[k].at # None
         /\ clock - last_set[k].at <
               (IF last_set[k].ttl = None THEN DEFAULT_EXPIRE ELSE last_set[k].ttl))
        => /\ k \in DOMAIN memory_cache
           /\ memory_cache[k].value = last_set[k].value
           /\ unexpired(memory_cache[k])

\* C23: run_all_checks returns exactly one record per registered check; a
\* check that raised has an unhealthy record with an error message, and
\* every other check, before or after it, has the record of its own result.
C23_OneRecordPerCheck ==
    health_op.op = "run_all_checks" =>
        /\ DOMAIN health_op.ret = CheckNames(health_checks)
        /\ \A n \in CheckNames(health_checks) :
              /\ health_op.ret[n].name = n
              /\ health_op.outcome[n] = "raises"
                    => /\ health_op.ret[n].status = "unhealthy"
                       /\ health_op.ret[n].error_message # "None"
              /\ health_op.outcome[n] # "raises"
                    => health_op.ret[n].status = health_op.outcome[n]

\* the check registered third raised; the checks before it and after it
\* are reported, one of the later ones as degraded
C23_Witness ==
    /\ health_op.op = "run_all_checks"
    /\ health_op.outcome["disk_space"] = "raises"
    /\ health_op.ret["database"].status = "healthy"
    /\ health_op.ret["cpu"].status = "degraded"
    /\ "custom" \in DOMAIN health_op.ret

\* C24: after run_all_checks the cached health_status holds, for every
\* registered check, the record this run returned for it.
C24_StatusIsLatestRun ==
    health_op.op = "run_all_checks" =>
        \A n \in CheckNames(health_checks) :
            /\ n \in DOMAIN health_status
            /\ health_status[n] = health_op.ret[n]

\* C25: the status of the health document is unhealthy iff some check
\* record is unhealthy, degraded iff none is unhealthy and some is degraded,
\* and healthy otherwise.
C25_OverallStatus ==
    health_op.op = "get_health_status" =>
        LET doc == health_op.ret
            some(st) == \E n \in DOMAIN doc.services : doc.services[n].status = st
        IN  /\ doc.status = "unhealthy" <=> some("unhealthy")
            /\ doc.status = "degraded" <=> (~some("unhealthy") /\ some("degraded"))
            /\ doc.status = "healthy" <=> (~some("unhealthy") /\ ~some("degraded"))

\* a document with a degraded and an unhealthy record is unhealthy
C25_Witness ==
    /\ health_op.op = "get_health_status"
    /\ health_op.ret.status = "unhealthy"
    /\ "custom" \in DOMAIN health_op.ret.services
    /\ health_op.ret.services["cpu"].status = "degraded"
    /\ health_op.ret.services["custom"].status = "unhealthy"
    /\ health_op.outcome["custom"] = "raises"

\* C26: after a health request in which a check is unhealthy or a scalar
\* rule is breached (cpu_usage above 90), the alert history holds an alert
\* for it.
C26_HealthRequestRaisesAlerts ==
    health_op.op = "get_health_status" =>
        LET doc == health_op.ret
        IN  /\ \A n \in DOMAIN doc.services :
                  doc.services[n].status = "unhealthy"
                     => \E i \in DOMAIN alerts :
                           /\ alerts[i].rule = "service_unhealthy"
                           /\ alerts[i].service = n
            /\ doc.metrics.cpu_usage > 90
                  => \E i \in DOMAIN alerts : alerts[i].rule = "high_cpu"

\* C27: when collect_metrics finds that at least 60 seconds have passed
\* since the last reset, the sample reports as requests_per_minute the total
\* of the window that ends, and the counters are zero afterwards.
C27_WindowTotalReported ==
    (metrics_op.op = "collect_metrics" /\ metrics_op.before.since_reset >= WINDOW)
    => /\ metrics_op.ret.requests_per_minute = metrics_op.before.total_requests
       /\ collector.total_requests = 0
       /\ collector.error_count = 0

\* C29: metrics_history never holds more than max_history samples and
\* request_times never more than 1000 values; collect_metrics appends its
\* sample, a full history dropping exactly its oldest sample and keeping the
\* others in collection order, and record_request does the same with
\* request_times.
C29_BoundedBuffers ==
    /\ Len(collector.metrics_history) <= collector.max_history
    /\ Len(collector.request_times) <= REQUEST_TIMES_MAXLEN
    /\ \A i \in 1 .. Len(collector.metrics_history) - 1 :
          collector.metrics_history[i].serial < collector.metrics_history[i + 1].serial
    /\ metrics_op.op = "collect_metrics" =>
          LET old == metrics_op.before.metrics_history
              new == collector.metrics_history
              dropped == IF Len(old) >= collector.max_history THEN 1 ELSE 0
          IN  /\ Len(new) = Len(old) + 1 - dropped
              /\ new[Len(new)] = metrics_op.ret
              /\ \A i \in 1 .. Len(new) - 1 : new[i] = old[i + dropped]
    /\ metrics_op.op = "record_request" =>
          LET n == metrics_op.before.buffered
              new == collector.request_times
              dropped == IF n >= REQUEST_TIMES_MAXLEN THEN 1 ELSE 0
          IN  /\ Len(new) = n + 1 - dropped
              /\ new[Len(new)] = metrics_op.arg
              /\ (dropped = 1 /\ Len(new) >= 2) => new[1] = metrics_op.before.second

\* a collect_metrics on a full history of two samples dropped the older one,
\* after two record_request calls had filled request_times beyond its
\* capacity
C29_Witness ==
    /\ metrics_op.op = "collect_metrics"
    /\ Len(collector.request_times) = REQUEST_TIMES_MAXLEN
    /\ collector.request_times[REQUEST_TIMES_MAXLEN - 1] = 2
    /\ collector.request_times[REQUEST_TIMES_MAXLEN] = 2
    /\ collector.max_history = 2
    /\ Len(metrics_op.before.metrics_history) = 2
    /\ Len(collector.metrics_history) = 2
    /\ collector.metrics_history[1] = metrics_op.before.metrics_history[2]

\* a record_request on a full request_times dropped the oldest value
C29_WitnessRequestTimes ==
    /\ metrics_op.op = "record_request"
    /\ metrics_op.before.buffered = REQUEST_TIMES_MAXLEN
    /\ Len(collector.request_times) = REQUEST_TIMES_MAXLEN
    /\ collector.request_times[REQUEST_TIMES_MAXLEN] = 2

\* C28: with threads calling record_request and collect_metrics at the same
\* time, once every call has returned error_count <= total_requests holds,
\* no increment is lost (without a reset the counters are the numbers of
\* requests and of errors recorded), no collect_metrics call raised and the
\* error rate of the last sample lies in 0..100.
CountersQuiet == \A t \in Procs : metrics_thread[t].pc = "idle"

C28_CountersConsistent ==
    (metrics_op.op = "counters" /\ CountersQuiet)
    => /\ collector.error_count <= collector.total_requests
       /\ metrics_op.resets = 0 =>
             /\ collector.total_requests = metrics_op.requests
             /\ collector.error_count = metrics_op.errors
       /\ ~metrics_op.raised
       /\ metrics_op.error_rate \in 0 .. 100

\* C30: one check_alerts call appends exactly one alert for each rule on a
\* scalar metric whose value is above the threshold (a value equal to it
\* raises none) and exactly one critical service alert for each unhealthy
\* health record, and nothing else; with cpu_usage 95, the other metrics
\* below their thresholds and no unhealthy record it appends exactly one
\* alert, and get_recent_alerts(24) returns every alert of the last 24 hours.
Appended == SubSeq(alerts, Len(alert_op.before) + 1, Len(alerts))

Breached(metrics) ==
    { r \in { <<"high_cpu", "cpu_usage", 90, "warning">>,
              <<"high_memory", "memory_usage", 90, "warning">>,
              <<"high_disk", "disk_usage", 90, "critical">>,
              <<"high_error_rate", "error_rate", 10, "critical">> } :
        metrics[r[2]] > r[3] }

Unhealthy(records) ==
    { i \in 1 .. Len(records) : records[i].status = "unhealthy" }

C30_CheckAlerts ==
    /\ alert_op.op = "check_alerts" =>
          LET new == Appended
              breached == Breached(alert_op.metrics)
              unhealthy == Unhealthy(alert_op.health_status)
          IN  /\ SubSeq(alerts, 1, Len(alert_op.before)) = alert_op.before
              /\ Len(new) = Cardinality(breached) + Cardinality(unhealthy)
              /\ \A r \in breached :
                    \E i \in 1 .. Len(new) :
                        /\ new[i].rule = r[1]
                        /\ new[i].metric = r[2]
                        /\ new[i].value = alert_op.metrics[r[2]]
                        /\ new[i].threshold = r[3]
                        /\ new[i].severity = r[4]
                        /\ new[i].timestamp = alert_clock
              /\ \A u \in unhealthy :
                    \E i \in 1 .. Len(new) :
                        /\ new[i].rule = "service_unhealthy"
                        /\ new[i].service = alert_op.health_status[u].name
                        /\ new[i].severity = "critical"
                        /\ new[i].timestamp = alert_clock
              /\ (alert_op.metrics.cpu_usage = 95 /\ Cardinality(breached) = 1
                    /\ unhealthy = {})
                 => /\ Len(new) = 1
                    /\ new[1].rule = "high_cpu"
                    /\ new[1].severity = "warning"
    /\ (alert_op.op = "get_recent_alerts" /\ alert_op.hours = 24) =>
          /\ \A i \in 1 .. Len(alerts) :
                (alert_clock - alerts[i].timestamp <= 86400)
                <=> (\E j \in 1 .. Len(alert_op.ret) : alert_op.ret[j] = alerts[i])
          /\ \A j \in 1 .. Len(alert_op.ret) :
                \E i \in 1 .. Len(alerts) : alerts[i] = alert_op.ret[j]

\* check_alerts with cpu_usage 95 appended one high_cpu alert to an empty
\* list and get_recent_alerts(24) returned it
C30_Witness ==
    /\ alert_op.op = "get_recent_alerts"
    /\ alert_op.hours = 24
    /\ Len(alerts) = 1
    /\ alerts[1].rule = "high_cpu"
    /\ alerts[1].value = 95
    /\ alert_op.ret = alerts

\* check_alerts with every metric at its threshold and two unhealthy
\* records appended the two service alerts only
C30_WitnessServices ==
    /\ alert_op.op = "check_alerts"
    /\ alert_op.metrics.cpu_usage = 90
    /\ Len(alert_op.health_status) = 2
    /\ Len(Appended) = 2
    /\ \A i \in 1 .. 2 : Appended[i].rule = "service_unhealthy"

\* C31: check_alerts appends each of its alerts to the history and then
\* calls every registered handler with it, in registration order; a handler
\* that raises stops neither the handlers after it nor the remaining alerts
\* of the call, the alert stays in the history and check_alerts returns
\* normally.
C31_Dispatch ==
    (alert_op.op = "check_alerts" /\ "calls" \in DOMAIN alert_op) =>
        LET new == alert_op.new
            H == Len(alert_handlers)
            calls == alert_op.calls
        IN  /\ alerts = alert_op.before \o new
            /\ Len(calls) = Len(new) * H
            /\ \A a \in 1 .. Len(new), h \in 1 .. H :
                  LET c == calls[(a - 1) * H + h]
                  IN  /\ c.handler = h
                      /\ c.id = new[a].id
                      /\ c.seen = Len(alert_op.before) + a
                      /\ c.raised = (alert_handlers[h] = "raises")
            /\ alert_op.ret = "None"

\* two alerts were dispatched to a raising handler followed by another one
C31_Witness ==
    /\ alert_op.op = "check_alerts"
    /\ "calls" \in DOMAIN alert_op
    /\ alert_handlers = <<"raises", "returns">>
    /\ Len(alert_op.new) = 2
    /\ Len(alert_op.calls) = 4
    /\ alert_op.calls[1].raised
    /\ alert_op.calls[4].handler = 2

\* C32: every alert in the history has an id different from the id of every
\* other alert in it, two alerts of the same rule raised by two check_alerts
\* calls within the same second included.
C32_UniqueIds ==
    \A i, j \in 1 .. Len(alerts) : i # j => alerts[i].id # alerts[j].id

\* C33: reset_circuit_breaker on an existing breaker in any state leaves it
\* Closed with failure_count 0 and success_count 0, so that the next
\* can_execute returns True; no other breaker changes and no breaker is
\* created for an unknown name.
C33_Reset ==
    last_call.op = "reset_circuit_breaker" =>
        LET before == last_call.before
            name == last_call.service
        IN  /\ DOMAIN circuit_breakers = DOMAIN before
            /\ \A n \in DOMAIN before :
                  n # name => circuit_breakers[n] = before[n]
            /\ name \in DOMAIN before =>
                  /\ circuit_breakers[name].state = CLOSED
                  /\ circuit_breakers[name].failure_count = 0
                  /\ circuit_breakers[name].success_count = 0
                  /\ circuit_breakers[name].failure_threshold = before[name].failure_threshold
                  /\ circuit_breakers[name].recovery_timeout = before[name].recovery_timeout

\* an Open breaker holding a success was reset while the other service's
\* breaker was Open
C33_Witness ==
    /\ last_call.op = "reset_circuit_breaker"
    /\ DOMAIN last_call.before = BreakerNames
    /\ last_call.before[last_call.service].state = OPEN
    /\ last_call.before[last_call.service].success_count = 1
    /\ \E n \in BreakerNames \ {last_call.service} : circuit_breakers[n].state = OPEN

\* a reset of a name without a breaker
C33_WitnessUnknown ==
    /\ last_call.op = "reset_circuit_breaker"
    /\ last_call.service \notin DOMAIN last_call.before
    /\ DOMAIN last_call.before # {}

\* C34: get_circuit_breaker_status and get_all_circuit_breaker_status change
\* no breaker's state, counters or last_failure_time and add no breaker to
\* the registry.
C34_StatusReadOnly ==
    last_call.op \in {"get_circuit_breaker_status", "get_all_circuit_breaker_status"}
    => circuit_breakers = last_call.before

\* C35: the policy of a wrapper call is the one resolved, with the call's
\* overrides, when the call started: while the call is running or sleeping
\* the max_retries its loop reads is the max_retries it started with,
\* whatever calls for the same service start meanwhile.
C35_PolicyFixedAtStart ==
    \A p \in Procs :
        call[p].pc \in {"running", "sleeping"}
        => retry_configs[call[p].service_name].max_retries = call[p].max_retries0

\* C36: an Open breaker recovers.  can_execute on an Open breaker whose
\* last failure is more than recovery_timeout old returns True and leaves it
\* HalfOpen; on_success in HalfOpen counts one success or, a success being
\* counted already, closes the breaker; and an Open breaker is Closed later
\* on unless another on_failure is recorded for it.
FailureRecorded(n) ==
    last_call.op = "on_failure" /\ last_call.service = n

IsOpen(n) ==
    n \in DOMAIN circuit_breakers /\ circuit_breakers[n].state = OPEN

IsClosed(n) ==
    n \in DOMAIN circuit_breakers /\ circuit_breakers[n].state = CLOSED

RecoverySteps ==
    /\ last_call.op = "can_execute" =>
          LET old == last_call.before[last_call.service]
              new == circuit_breakers[last_call.service]
          IN  (old.state = OPEN /\ old.since_failure > old.recovery_timeout)
              => (last_call.ret = TRUE /\ new.state = HALF_OPEN)
    /\ last_call.op = "on_success" =>
          LET old == last_call.before[last_call.service]
              new == circuit_breakers[last_call.service]
          IN  old.state = HALF_OPEN =>
                 IF old.success_count >= 1
                 THEN new.state = CLOSED /\ new.failure_count = 0
                 ELSE new.state = HALF_OPEN /\ new.success_count = 1

C36_Recovers ==
    /\ []RecoverySteps
    /\ \A n \in BreakerNames :
          (IsOpen(n) /\ ~FailureRecorded(n)) ~> (IsClosed(n) \/ FailureRecorded(n))

\* the second success of a HalfOpen period closed a breaker that a failure
\* had opened
C36_Witness ==
    /\ last_call.op = "on_success"
    /\ last_call.before[last_call.service].state = HALF_OPEN
    /\ last_call.before[last_call.service].success_count = 1
    /\ last_call.before[last_call.service].failure_count >= 1
    /\ circuit_breakers[last_call.service].state = CLOSED

\* C37: a call of a function wrapped by cached(prefix, ttl) that finds a live
\* entry for its arguments returns the stored result without executing the
\* function, whatever the stored result is (None included).
C37_AtMostOnce ==
    (/\ cache_op.op = "cached"
     /\ cache_op.key \in DOMAIN cache_op.before
     /\ cache_op.before[cache_op.key].expires_at > cache_op.at)
    => /\ ~cache_op.executed
       /\ cache_op.ret = cache_op.before[cache_op.key].value

\* C38: for sequential check_rate_limit calls of one client with limit L and
\* window W, at most L calls are admitted in the W seconds from the start of
\* the stored window; a rejected call leaves the stored count and window
\* start as they were; and a call at or after W seconds from the window
\* start is admitted and starts a new window with count 1.
AdmittedFrom(start, window) ==
    Cardinality({ i \in 1 .. Len(cache_op.admitted) :
                    /\ cache_op.admitted[i] >= start
                    /\ cache_op.admitted[i] < start + window })

RateLimitHolds ==
    /\ RateKey \in DOMAIN memory_cache =>
          AdmittedFrom(memory_cache[RateKey].value[2], cache_op.window)
             <= cache_op.limit
    /\ cache_op.op = "check_rate_limit" =>
          /\ ~cache_op.ret => memory_cache = cache_op.before
          /\ (/\ RateKey \in DOMAIN cache_op.before
              /\ clock - cache_op.before[RateKey].value[2] >= cache_op.window)
             => /\ cache_op.ret
                /\ memory_cache[RateKey].value = <<1, clock>>

C38_RateLimit == RateLimitHolds

\* C38 for a limit of at least 1
C38_PositiveLimit == cache_op.limit >= 1 => RateLimitHolds

\* a call was rejected in a window that had admitted limit calls
C38_Rejected ==
    /\ cache_op.op = "check_rate_limit"
    /\ ~cache_op.ret
    /\ cache_op.limit = 2
    /\ Len(cache_op.admitted) = 2

\* C39: after any sequence of can_execute, on_success, on_failure and reset
\* calls on a breaker with failure_threshold >= 1, a Closed breaker has
\* success_count 0 and failure_count below failure_threshold, success_count
\* is 0 or 1, and an Open or HalfOpen breaker has last_failure_time set.
C39_BreakerInvariants ==
    \A n \in DOMAIN circuit_breakers :
        LET cb == circuit_breakers[n]
        IN  /\ cb.failure_threshold >= 1
            /\ cb.state = CLOSED =>
                  /\ cb.success_count = 0
                  /\ cb.failure_count < cb.failure_threshold
            /\ cb.success_count \in {0, 1}
            /\ cb.state \in {OPEN, HALF_OPEN} => cb.since_failure # None

\* a HalfOpen breaker holding a success was reopened by on_failure
C39_Witness ==
    /\ last_call.op = "on_failure"
    /\ last_call.before[last_call.service].state = HALF_OPEN
    /\ circuit_breakers[last_call.service].state = OPEN
    /\ circuit_breakers[last_call.service].success_count = 1
    /\ circuit_breakers[last_call.service].since_failure = 0

====
